---------------------------- MODULE Spec2Model ----------------------------
(***************************************************************************)
(* adaptive-card-rs: the typed model of an Adaptive Card document and its  *)
(* JSON mapping, as the serde derives of src/src/{card,actions,inputs,     *)
(* common}.rs define it.                                                   *)
(*                                                                         *)
(* A Rust value is modelled as                                             *)
(*   - String: a TLA+ string; bool: a BOOLEAN                              *)
(*   - u32: [hi |-> h, lo |-> l], the number h * 2^16 + l, two 16-bit      *)
(*          halves (TLC's own integers stop at 2^31 - 1)                   *)
(*   - f64: [fin |-> TRUE, n |-> i] (the finite float i.0) or              *)
(*          [fin |-> FALSE, c |-> "NaN"]                                   *)
(*   - Option<T>: <<>> (None) or <<x>> (Some(x))                           *)
(*   - Vec<T>: a sequence; Box<T>: the boxed value                         *)
(*   - a unit-variant enum: the Rust name of the variant                   *)
(*   - a struct: a record keyed by the Rust field names                    *)
(*   - CardElement / Action: [variant |-> name, inner |-> struct]          *)
(*   - ColumnWidth: [kind |-> ColumnWidthKind value]                       *)
(*   - serde_json::Value: the JSON value itself                            *)
(* JSON text is modelled by its token structure: an object is the ordered  *)
(* sequence of its <<key, value>> members, so that member order and a      *)
(* repeated key are both visible; a number is its token text.              *)
(***************************************************************************)
EXTENDS Integers, Sequences, FiniteSets, TLC

(* One call of the library at a time: the application builds a value of
   type typ and writes it with serde_json::to_string, or a JSON text arrives
   and is read as a typ with serde_json::from_str.
     pc      where the call stands
     typ     the Rust type of the call ("" when idle)
     value   the value the application built, if it built one
     wire    the JSON text written or received
     result  what from_str returned *)
VARIABLES pc, typ, value, wire, result, calls

vars == <<pc, typ, value, wire, result, calls>>

---------------------------------------------------------------------------
(* Option<T> *)
None == <<>>
Some(x) == <<x>>
IsNone(o) == o = <<>>

(* Result<T, serde_json::Error> *)
Ok(v) == [ok |-> TRUE, val |-> v]
Err(kind, what) == [ok |-> FALSE, err |-> [kind |-> kind, what |-> what]]

---------------------------------------------------------------------------
(* JSON values *)
JNull == [k |-> "null"]
JBool(b) == [k |-> "bool", b |-> b]
JNum(text) == [k |-> "number", text |-> text]
JStr(s) == [k |-> "string", s |-> s]
JArr(a) == [k |-> "array", a |-> a]
JObj(members) == [k |-> "object", o |-> members]

(* The keys of an object, in text order, repeated keys included. *)
Keys(j) == [i \in 1..Len(j.o) |-> j.o[i][1]]
HasKey(j, key) == \E i \in 1..Len(j.o) : j.o[i][1] = key
CountKey(j, key) == Cardinality({i \in 1..Len(j.o) : j.o[i][1] = key})
(* The value of the first member named key. *)
Member(j, key) == j.o[CHOOSE i \in 1..Len(j.o) :
                        /\ j.o[i][1] = key
                        /\ \A h \in 1..(i - 1) : j.o[h][1] # key][2]

---------------------------------------------------------------------------
(* Characters and the serde rename rules *)
LowerAlpha == "abcdefghijklmnopqrstuvwxyz"
UpperAlpha == "ABCDEFGHIJKLMNOPQRSTUVWXYZ"
DecimalDigits == "0123456789"

CharAt(s, i) == SubSeq(s, i, i)
IndexIn(c, s) == IF \E i \in 1..Len(s) : CharAt(s, i) = c
                 THEN CHOOSE i \in 1..Len(s) : CharAt(s, i) = c
                 ELSE 0

ToAsciiLowercase(c) == LET i == IndexIn(c, UpperAlpha)
                       IN  IF i = 0 THEN c ELSE CharAt(LowerAlpha, i)
ToAsciiUppercase(c) == LET i == IndexIn(c, LowerAlpha)
                       IN  IF i = 0 THEN c ELSE CharAt(UpperAlpha, i)

RECURSIVE MapChars(_, _, _)
MapChars(s, i, upper) ==
    IF i > Len(s) THEN ""
    ELSE (IF upper THEN ToAsciiUppercase(CharAt(s, i))
          ELSE ToAsciiLowercase(CharAt(s, i))) \o MapChars(s, i + 1, upper)
LowerAll(s) == MapChars(s, 1, FALSE)
UpperAll(s) == MapChars(s, 1, TRUE)

LowerFirst(s) == IF s = "" THEN s
                 ELSE ToAsciiLowercase(CharAt(s, 1)) \o SubSeq(s, 2, Len(s))

(* RenameRule::PascalCase.apply_to_field: drop each '_' and capitalise the
   character after it, and the first one.  PascalRange does the characters
   lo..hi of s, the first being capitalised when capitalize says so; the
   range is halved rather than walked, which gives the same string. *)
RECURSIVE PascalRange(_, _, _, _)
PascalRange(s, lo, hi, capitalize) ==
    IF lo > hi THEN ""
    ELSE IF lo = hi
    THEN IF CharAt(s, lo) = "_" THEN ""
         ELSE IF capitalize THEN ToAsciiUppercase(CharAt(s, lo))
         ELSE CharAt(s, lo)
    ELSE PascalRange(s, lo, (lo + hi) \div 2, capitalize)
         \o PascalRange(s, (lo + hi) \div 2 + 1, hi,
                        CharAt(s, (lo + hi) \div 2) = "_")
PascalFrom(s, i, capitalize) == PascalRange(s, i, Len(s), capitalize)

(* Mutation: rename_all is lost and a field keeps its Rust name. *)
ApplyToField_Forgotten(rule, field) == field

(* rename_all on a struct: the wire key of a field. *)
ApplyToField(rule, field) ==
    IF rule = "camelCase" THEN LowerFirst(PascalFrom(field, 1, TRUE)) ELSE field

(* rename_all on an enum: the wire token of a variant. *)
ApplyToVariant(rule, variant) ==
    IF rule = "camelCase" THEN LowerFirst(variant) ELSE variant

---------------------------------------------------------------------------
(* Numbers *)
Half == 256 * 256

(* The u32 of a number TLC can hold. *)
U32(n) == [hi |-> n \div Half, lo |-> n % Half]
U32Max == [hi |-> Half - 1, lo |-> Half - 1]

DigitChar(d) == CharAt(DecimalDigits, d + 1)
DigitValue(c) == IndexIn(c, DecimalDigits) - 1
IsDigits(s) == Len(s) > 0 /\ \A i \in 1..Len(s) : IndexIn(CharAt(s, i), DecimalDigits) # 0

(* x divided by ten: the quotient and the remainder. *)
DivMod10(x) ==
    LET carry == (x.hi % 10) * Half + x.lo
    IN  [q |-> [hi |-> x.hi \div 10, lo |-> carry \div 10], r |-> carry % 10]

(* u32 Display: the decimal digits of x, most significant first. *)
RECURSIVE FormatU32(_)
FormatU32(x) ==
    IF x.hi = 0 /\ x.lo < 10 THEN DigitChar(x.lo)
    ELSE FormatU32(DivMod10(x).q) \o DigitChar(DivMod10(x).r)

(* The decimal digits of a number TLC can hold. *)
RECURSIVE FormatNat(_)
FormatNat(n) == IF n < 10 THEN DigitChar(n)
                ELSE FormatNat(n \div 10) \o DigitChar(n % 10)

RECURSIVE ParseNat(_, _, _)
ParseNat(s, i, acc) ==
    IF i > Len(s) THEN acc ELSE ParseNat(s, i + 1, acc * 10 + DigitValue(CharAt(s, i)))

(* a <= b for two digit strings without leading zeros. *)
RECURSIVE DigitsLeqFrom(_, _, _)
DigitsLeqFrom(a, b, i) ==
    IF i > Len(a) THEN TRUE
    ELSE IF DigitValue(CharAt(a, i)) < DigitValue(CharAt(b, i)) THEN TRUE
    ELSE IF DigitValue(CharAt(a, i)) > DigitValue(CharAt(b, i)) THEN FALSE
    ELSE DigitsLeqFrom(a, b, i + 1)
DigitsLeq(a, b) ==
    Len(a) < Len(b) \/ (Len(a) = Len(b) /\ DigitsLeqFrom(a, b, 1))

(* The digits read into a u32, one at a time: x * 10 + d.  Called only on
   digit strings that fit. *)
RECURSIVE ParseU32(_, _, _)
ParseU32(s, i, x) ==
    IF i > Len(s) THEN x
    ELSE LET lo10 == x.lo * 10 + DigitValue(CharAt(s, i))
         IN  ParseU32(s, i + 1, [hi |-> x.hi * 10 + lo10 \div Half,
                                 lo |-> lo10 % Half])

U32MaxDigits == FormatU32(U32Max)
U64MaxDigits == "18446744073709551615"

---------------------------------------------------------------------------
(* The derive input: one definition per Rust type. *)

(* A struct field: its Rust name, its #[serde(rename)] if any, its type, and
   whether it is Option<ty> with skip_serializing_if = "Option::is_none". *)
F(n, t) == [name |-> n, rename |-> None, ty |-> t, opt |-> FALSE]
O(n, t) == [name |-> n, rename |-> None, ty |-> t, opt |-> TRUE]
FR(n, r, t) == [name |-> n, rename |-> Some(r), ty |-> t, opt |-> FALSE]

(* A struct: its name, its #[serde(tag)] if any, its rename_all, its fields
   in declaration order, each with its wire key: an explicit rename wins
   over the container's rename_all. *)
Struct(n, tag, rule, fields) ==
    [name |-> n, tag |-> tag, rename_all |-> rule,
     fields |-> [i \in 1..Len(fields) |->
                    [name |-> fields[i].name, rename |-> fields[i].rename,
                     ty |-> fields[i].ty, opt |-> fields[i].opt,
                     key |-> IF fields[i].rename # None THEN fields[i].rename[1]
                             ELSE ApplyToField(rule, fields[i].name)]] \o <<>>]

(* An enum variant: its Rust name, its #[serde(rename)] if any, and for a
   newtype variant the type it wraps. *)
V(n) == [name |-> n, rename |-> None, ty |-> ""]
VR(n, r) == [name |-> n, rename |-> Some(r), ty |-> ""]
NV(n, t) == [name |-> n, rename |-> None, ty |-> t]
NVR(n, r, t) == [name |-> n, rename |-> Some(r), ty |-> t]

Enum(n, tag, rule, variants) ==
    [name |-> n, tag |-> tag, rename_all |-> rule, variants |-> variants]

Version ==
    Enum("Version", None, "",
         << VR("V1_0", "1.0"), VR("V1_1", "1.1"), VR("V1_2", "1.2"),
            VR("V1_3", "1.3"), VR("V1_4", "1.4"), VR("V1_5", "1.5"),
            VR("V1_6", "1.6") >>)

AdaptiveCard ==
    Struct("AdaptiveCard", Some("type"), "camelCase",
           << FR("schema", "$schema", "String"),
              F("version", "Version"),
              F("body", "Vec<CardElement>"),
              O("msteams", "MsTeams"),
              O("actions", "Vec<Action>"),
              O("select_action", "Box<Action>"),
              O("fallback_text", "String"),
              O("min_height", "String"),
              O("vertical_content_alignment", "VerticalContentAlignment"),
              O("rtl", "bool"),
              O("lang", "String") >>)

CardElement ==
    Enum("CardElement", Some("type"), "",
         << NV("TextBlock", "TextBlock"),
            NV("Container", "Container"),
            NV("ColumnSet", "ColumnSet"),
            NV("Image", "Image"),
            NV("ActionSet", "ActionSet"),
            NV("FactSet", "FactSet"),
            NV("RichTextBlock", "RichTextBlock"),
            NVR("InputText", "Input.Text", "InputText"),
            NVR("InputNumber", "Input.Number", "InputNumber"),
            NVR("InputDate", "Input.Date", "InputDate"),
            NVR("InputTime", "Input.Time", "InputTime"),
            NVR("InputToggle", "Input.Toggle", "InputToggle"),
            NVR("InputChoiceSet", "Input.ChoiceSet", "InputChoiceSet") >>)

TextBlock ==
    Struct("TextBlock", None, "camelCase",
           << F("text", "String"),
              O("size", "TextSize"),
              O("weight", "TextWeight"),
              O("wrap", "bool"),
              O("is_subtle", "bool"),
              O("color", "Color"),
              O("horizontal_alignment", "HorizontalAlignment"),
              O("max_lines", "u32"),
              O("font_type", "FontType"),
              O("id", "String"),
              O("separator", "bool"),
              O("spacing", "Spacing"),
              O("height", "Height"),
              O("is_visible", "bool") >>)

Container ==
    Struct("Container", None, "camelCase",
           << F("items", "Vec<CardElement>"),
              O("style", "ContainerStyle"),
              O("spacing", "Spacing"),
              O("select_action", "Box<Action>"),
              O("vertical_content_alignment", "VerticalContentAlignment"),
              O("bleed", "bool"),
              O("min_height", "String"),
              O("id", "String"),
              O("separator", "bool"),
              O("height", "Height"),
              O("is_visible", "bool") >>)

MsTeamsWidth == Enum("MsTeamsWidth", None, "camelCase", << V("Full") >>)

MsTeams ==
    Struct("MsTeams", None, "camelCase", << O("width", "MsTeamsWidth") >>)

ColumnSet ==
    Struct("ColumnSet", Some("type"), "camelCase",
           << F("columns", "Vec<Column>") >>)

Column ==
    Struct("Column", Some("type"), "camelCase",
           << F("width", "ColumnWidth"), F("items", "Vec<CardElement>") >>)

Image ==
    Struct("Image", None, "camelCase",
           << F("url", "String"),
              O("size", "ImageSize"),
              O("alt_text", "String"),
              O("background_color", "String"),
              O("horizontal_alignment", "HorizontalAlignment"),
              O("select_action", "Box<Action>"),
              O("width", "String"),
              O("id", "String"),
              O("separator", "bool"),
              O("spacing", "Spacing"),
              O("height", "Height"),
              O("is_visible", "bool") >>)

FactSet ==
    Struct("FactSet", None, "camelCase", << F("facts", "Vec<Fact>") >>)

Fact ==
    Struct("Fact", None, "camelCase",
           << F("title", "String"), F("value", "String") >>)

RichTextBlock ==
    Struct("RichTextBlock", None, "camelCase",
           << F("inlines", "Vec<Inline>"),
              O("horizontal_alignment", "HorizontalAlignment"),
              O("id", "String"),
              O("separator", "bool"),
              O("spacing", "Spacing"),
              O("height", "Height"),
              O("is_visible", "bool") >>)

(* #[serde(untagged)]: the variants are tried in declaration order. *)
Inline ==
    Enum("Inline", None, "",
         << NV("Text", "String"), NV("TextRun", "TextRun") >>)

TextRun ==
    Struct("TextRun", None, "camelCase",
           << FR("type_field", "type", "String"),
              F("text", "String"),
              O("color", "Color"),
              O("font_type", "FontType"),
              O("highlight", "bool"),
              O("is_subtle", "bool"),
              O("italic", "bool"),
              O("size", "TextSize"),
              O("strikethrough", "bool"),
              O("weight", "TextWeight") >>)

TextSize ==
    Enum("TextSize", None, "camelCase",
         << V("Small"), V("Default"), V("Medium"), V("Large"),
            V("ExtraLarge") >>)

TextWeight ==
    Enum("TextWeight", None, "camelCase",
         << V("Lighter"), V("Default"), V("Bolder") >>)

ContainerStyle ==
    Enum("ContainerStyle", None, "camelCase",
         << V("Default"), V("Emphasis"), V("Good"), V("Attention"),
            V("Warning"), V("Accent") >>)

Spacing ==
    Enum("Spacing", None, "camelCase",
         << V("None"), V("Small"), V("Default"), V("Medium"), V("Large"),
            V("ExtraLarge"), V("Padding") >>)

(* #[serde(untagged)]: the variants are tried in declaration order. *)
ColumnWidthKind ==
    Enum("ColumnWidthKind", None, "",
         << NV("Auto", "String"), NV("Stretch", "String"),
            NV("Pixel", "String"), NV("Relative", "u32") >>)

ImageSize ==
    Enum("ImageSize", None, "camelCase",
         << V("Auto"), V("Stretch"), V("Small"), V("Medium"), V("Large") >>)

Color ==
    Enum("Color", None, "camelCase",
         << V("Default"), V("Dark"), V("Light"), V("Accent"), V("Good"),
            V("Warning"), V("Attention") >>)

HorizontalAlignment ==
    Enum("HorizontalAlignment", None, "camelCase",
         << V("Left"), V("Center"), V("Right") >>)

VerticalContentAlignment ==
    Enum("VerticalContentAlignment", None, "camelCase",
         << V("Top"), V("Center"), V("Bottom") >>)

Height == Enum("Height", None, "camelCase", << V("Auto"), V("Stretch") >>)

FontType ==
    Enum("FontType", None, "camelCase", << V("Default"), V("Monospace") >>)

ActionStyle ==
    Enum("ActionStyle", None, "camelCase",
         << V("Default"), V("Positive"), V("Destructive") >>)

ActionMode ==
    Enum("ActionMode", None, "camelCase", << V("Primary"), V("Secondary") >>)

(* No rename_all on this one. *)
(* Mutation: the enum renames its variants as the others do. *)
AssociatedInputs_CamelCase ==
    Enum("AssociatedInputs", None, "camelCase", << V("Auto"), V("None") >>)

AssociatedInputs ==
    Enum("AssociatedInputs", None, "", << V("Auto"), V("None") >>)

TextInputStyle ==
    Enum("TextInputStyle", None, "camelCase",
         << V("Text"), V("Tel"), V("Url"), V("Email"), V("Password") >>)

ChoiceInputStyle ==
    Enum("ChoiceInputStyle", None, "camelCase",
         << V("Compact"), V("Expanded"), V("Filtered") >>)

TextBlockStyle ==
    Enum("TextBlockStyle", None, "camelCase", << V("Default"), V("Heading") >>)

ActionSet ==
    Struct("ActionSet", None, "camelCase", << F("actions", "Vec<Action>") >>)

(* Mutation: the action table also answers to a node tag. *)
Action_SharedTable ==
    Enum("Action", Some("type"), "camelCase",
         << NVR("OpenUrl", "Action.OpenUrl", "OpenUrlAction"),
            NVR("Submit", "Action.Submit", "SubmitAction"),
            NVR("ShowCard", "Action.ShowCard", "ShowCardAction"),
            NVR("ToggleVisibility", "Action.ToggleVisibility",
                "ToggleVisibilityAction"),
            NVR("TextBlock", "TextBlock", "TextBlock") >>)

Action ==
    Enum("Action", Some("type"), "camelCase",
         << NVR("OpenUrl", "Action.OpenUrl", "OpenUrlAction"),
            NVR("Submit", "Action.Submit", "SubmitAction"),
            NVR("ShowCard", "Action.ShowCard", "ShowCardAction"),
            NVR("ToggleVisibility", "Action.ToggleVisibility",
                "ToggleVisibilityAction") >>)

(* The optional fields every action struct repeats after its own. *)
ActionCommonTail ==
    << O("id", "String"),
       O("icon_url", "String"),
       O("style", "ActionStyle"),
       O("tooltip", "String"),
       O("is_enabled", "bool"),
       O("mode", "ActionMode") >>

OpenUrlAction ==
    Struct("OpenUrlAction", None, "camelCase",
           << O("title", "String"), F("url", "String") >> \o ActionCommonTail)

SubmitAction ==
    Struct("SubmitAction", None, "camelCase",
           << O("title", "String"),
              O("data", "Value"),
              O("associated_inputs", "AssociatedInputs") >> \o ActionCommonTail)

ShowCardAction ==
    Struct("ShowCardAction", None, "camelCase",
           << O("title", "String"), F("card", "Box<AdaptiveCard>") >>
           \o ActionCommonTail)

ToggleVisibilityAction ==
    Struct("ToggleVisibilityAction", None, "camelCase",
           << O("title", "String"), F("target_elements", "Vec<String>") >>
           \o ActionCommonTail)

(* The optional fields every input struct repeats after its own. *)
InputCommonTail ==
    << O("label", "String"),
       O("is_required", "bool"),
       O("error_message", "String"),
       O("separator", "bool"),
       O("spacing", "Spacing"),
       O("height", "Height"),
       O("is_visible", "bool") >>

InputText ==
    Struct("InputText", None, "camelCase",
           << F("id", "String"),
              O("is_multiline", "bool"),
              O("max_length", "u32"),
              O("placeholder", "String"),
              O("regex", "String"),
              O("style", "TextInputStyle"),
              O("value", "String") >> \o InputCommonTail)

InputNumber ==
    Struct("InputNumber", None, "camelCase",
           << F("id", "String"),
              O("min", "f64"),
              O("max", "f64"),
              O("placeholder", "String"),
              O("value", "f64") >> \o InputCommonTail)

InputDate ==
    Struct("InputDate", None, "camelCase",
           << F("id", "String"),
              O("min", "String"),
              O("max", "String"),
              O("placeholder", "String"),
              O("value", "String") >> \o InputCommonTail)

InputTime ==
    Struct("InputTime", None, "camelCase",
           << F("id", "String"),
              O("min", "String"),
              O("max", "String"),
              O("placeholder", "String"),
              O("value", "String") >> \o InputCommonTail)

InputToggle ==
    Struct("InputToggle", None, "camelCase",
           << F("id", "String"),
              F("title", "String"),
              O("value", "String"),
              O("value_on", "String"),
              O("value_off", "String"),
              O("wrap", "bool") >> \o InputCommonTail)

InputChoiceSet ==
    Struct("InputChoiceSet", None, "camelCase",
           << F("id", "String"),
              O("choices", "Vec<InputChoice>"),
              O("is_multi_select", "bool"),
              O("style", "ChoiceInputStyle"),
              O("value", "String"),
              O("placeholder", "String"),
              O("wrap", "bool") >> \o InputCommonTail)

InputChoice ==
    Struct("InputChoice", None, "camelCase",
           << F("title", "String"), F("value", "String") >>)

StructNames ==
    { "AdaptiveCard", "TextBlock", "Container", "MsTeams", "ColumnSet",
      "Column", "Image", "FactSet", "Fact", "RichTextBlock", "TextRun",
      "ActionSet", "OpenUrlAction", "SubmitAction", "ShowCardAction",
      "ToggleVisibilityAction", "InputText", "InputNumber", "InputDate",
      "InputTime", "InputToggle", "InputChoiceSet", "InputChoice" }

UnitEnumNames ==
    { "Version", "MsTeamsWidth", "TextSize", "TextWeight", "ContainerStyle",
      "Spacing", "ImageSize", "Color", "HorizontalAlignment",
      "VerticalContentAlignment", "Height", "FontType", "ActionStyle",
      "ActionMode", "AssociatedInputs", "TextInputStyle", "ChoiceInputStyle",
      "TextBlockStyle" }

TaggedEnumNames == { "CardElement", "Action" }

TypeDef(ty) ==
    CASE ty = "AdaptiveCard" -> AdaptiveCard
      [] ty = "Version" -> Version
      [] ty = "CardElement" -> CardElement
      [] ty = "TextBlock" -> TextBlock
      [] ty = "Container" -> Container
      [] ty = "MsTeamsWidth" -> MsTeamsWidth
      [] ty = "MsTeams" -> MsTeams
      [] ty = "ColumnSet" -> ColumnSet
      [] ty = "Column" -> Column
      [] ty = "Image" -> Image
      [] ty = "FactSet" -> FactSet
      [] ty = "Fact" -> Fact
      [] ty = "RichTextBlock" -> RichTextBlock
      [] ty = "Inline" -> Inline
      [] ty = "TextRun" -> TextRun
      [] ty = "TextSize" -> TextSize
      [] ty = "TextWeight" -> TextWeight
      [] ty = "ContainerStyle" -> ContainerStyle
      [] ty = "Spacing" -> Spacing
      [] ty = "ColumnWidthKind" -> ColumnWidthKind
      [] ty = "ImageSize" -> ImageSize
      [] ty = "Color" -> Color
      [] ty = "HorizontalAlignment" -> HorizontalAlignment
      [] ty = "VerticalContentAlignment" -> VerticalContentAlignment
      [] ty = "Height" -> Height
      [] ty = "FontType" -> FontType
      [] ty = "ActionStyle" -> ActionStyle
      [] ty = "ActionMode" -> ActionMode
      [] ty = "AssociatedInputs" -> AssociatedInputs
      [] ty = "TextInputStyle" -> TextInputStyle
      [] ty = "ChoiceInputStyle" -> ChoiceInputStyle
      [] ty = "TextBlockStyle" -> TextBlockStyle
      [] ty = "ActionSet" -> ActionSet
      [] ty = "Action" -> Action
      [] ty = "OpenUrlAction" -> OpenUrlAction
      [] ty = "SubmitAction" -> SubmitAction
      [] ty = "ShowCardAction" -> ShowCardAction
      [] ty = "ToggleVisibilityAction" -> ToggleVisibilityAction
      [] ty = "InputText" -> InputText
      [] ty = "InputNumber" -> InputNumber
      [] ty = "InputDate" -> InputDate
      [] ty = "InputTime" -> InputTime
      [] ty = "InputToggle" -> InputToggle
      [] ty = "InputChoiceSet" -> InputChoiceSet
      [] ty = "InputChoice" -> InputChoice

(* Vec<T> and Box<T> *)
IsVec(ty) == Len(ty) > 5 /\ SubSeq(ty, 1, 4) = "Vec<"
IsBox(ty) == Len(ty) > 5 /\ SubSeq(ty, 1, 4) = "Box<"
ElemTy(ty) == SubSeq(ty, 5, Len(ty) - 1)

(* The wire key of a field, and the wire token of a variant: an explicit
   rename wins over the container's rename_all. *)
FieldKey(def, f) == f.key
VariantToken(def, v) ==
    IF v.rename # None THEN v.rename[1] ELSE ApplyToVariant(def.rename_all, v.name)

(* The variant of an enum by its Rust name. *)
VariantNamed(def, n) ==
    def.variants[CHOOSE i \in 1..Len(def.variants) : def.variants[i].name = n]

---------------------------------------------------------------------------
(* Values of the enums that carry data: the variant's Rust name maps to the
   value it wraps, so TextBlock(t) is [TextBlock |-> t]. *)
Variant(n, x) == n :> x
VariantOf(v) == CHOOSE n \in DOMAIN v : TRUE
Payload(v) == v[VariantOf(v)]

UntaggedEnumNames == { "ColumnWidthKind", "Inline" }

---------------------------------------------------------------------------
(* Serialize: what #[derive(Serialize)] and serde_json::to_string write. *)

(* Mutation: the tag of a struct is not written. *)
StructTagMember_Lost(def) == <<>>

(* Mutation: skip_serializing_if is lost and None is written. *)
SkipSerializing_Never(f, fv) == FALSE

(* skip_serializing_if = "Option::is_none" *)
SkipSerializing(f, fv) == f.opt /\ IsNone(fv)

(* #[serde(tag = "type")] on a struct writes the struct's name under the tag
   as the first member. *)
StructTagMember(def) ==
    IF def.tag = None THEN <<>> ELSE << <<def.tag[1], JStr(def.name)>> >>

(* #[serde(tag = "type")] on an enum: the variant's token under the tag,
   written before the members of the value the variant wraps. *)
EnumTagMember(def, var) == << <<def.tag[1], JStr(VariantToken(def, var))>> >>

(* Mutation: a float that is no number is refused. *)
SerializeF64_Refusing(v) ==
    IF v.fin THEN JNum(FormatNat(v.n) \o ".0")
    ELSE [k |-> "error", msg |-> "float must be finite"]

(* serde_json writes a finite float as a number and NaN or an infinity as
   null.  The floats of the model are the whole numbers i.0 with i >= 0. *)
SerializeF64(v) == IF v.fin THEN JNum(FormatNat(v.n) \o ".0") ELSE JNull

RECURSIVE Serialize(_, _)
RECURSIVE SerializeFields(_, _, _)

(* Option<T>::serialize: None is null, Some(x) is x. *)
SerializeField(f, fv) ==
    IF f.opt
    THEN IF IsNone(fv) THEN JNull ELSE Serialize(f.ty, fv[1])
    ELSE Serialize(f.ty, fv)

(* The members of the fields from the i-th on, in declaration order, the
   skipped ones left out. *)
SerializeFields(def, v, i) ==
    LET kept == SelectSeq([h \in 1..Len(def.fields) |-> h],
                          LAMBDA h : h >= i /\ ~SkipSerializing(def.fields[h],
                                                                v[def.fields[h].name]))
    IN  [k \in 1..Len(kept) |->
            <<FieldKey(def, def.fields[kept[k]]),
              SerializeField(def.fields[kept[k]], v[def.fields[kept[k]].name])>>]

SerializeStruct(def, v) ==
    JObj(StructTagMember(def) \o SerializeFields(def, v, 1))

SerializeTagged(def, v) ==
    LET var == VariantNamed(def, VariantOf(v))
    IN  JObj(EnumTagMember(def, var) \o Serialize(var.ty, Payload(v)).o)

SerializeUntagged(def, v) ==
    Serialize(VariantNamed(def, VariantOf(v)).ty, Payload(v))

SerializeUnitEnum(def, v) == JStr(VariantToken(def, VariantNamed(def, v)))

Serialize(ty, v) ==
    CASE ty = "String" -> JStr(v)
      [] ty = "bool" -> JBool(v)
      [] ty = "u32" -> JNum(FormatU32(v))
      [] ty = "f64" -> SerializeF64(v)
      [] ty = "Value" -> v
      [] IsVec(ty) -> JArr([i \in 1..Len(v) |-> Serialize(ElemTy(ty), v[i])])
      [] IsBox(ty) -> Serialize(ElemTy(ty), v)
      [] ty = "ColumnWidth" -> Serialize("ColumnWidthKind", v.kind)
      [] ty \in UntaggedEnumNames -> SerializeUntagged(TypeDef(ty), v)
      [] ty \in UnitEnumNames -> SerializeUnitEnum(TypeDef(ty), v)
      [] ty \in TaggedEnumNames -> SerializeTagged(TypeDef(ty), v)
      [] ty \in StructNames -> SerializeStruct(TypeDef(ty), v)

---------------------------------------------------------------------------
(* Deserialize: what #[derive(Deserialize)] and serde_json::from_str read.
   The result is Ok(value) or the first error met. *)

FieldIndex(def, key) ==
    IF \E i \in 1..Len(def.fields) : FieldKey(def, def.fields[i]) = key
    THEN CHOOSE i \in 1..Len(def.fields) : FieldKey(def, def.fields[i]) = key
    ELSE 0

VariantIndex(def, token) ==
    IF \E i \in 1..Len(def.variants) : VariantToken(def, def.variants[i]) = token
    THEN CHOOSE i \in 1..Len(def.variants) :
             VariantToken(def, def.variants[i]) = token
    ELSE 0

(* Mutation: the variant is found whatever the letter case of the tag. *)
DeserializeVariant_AnyCase(def, j) ==
    IF j.k # "string" THEN Err("invalid_type", j.k)
    ELSE LET hits == {i \in 1..Len(def.variants) :
                        LowerAll(VariantToken(def, def.variants[i])) = LowerAll(j.s)}
         IN  IF hits = {} THEN Err("unknown_variant", j.s)
             ELSE Ok(def.variants[CHOOSE i \in hits : TRUE])

(* Mutation: a tag of no variant falls back to the first variant. *)
DeserializeVariant_Fallback(def, j) ==
    IF j.k # "string" THEN Err("invalid_type", j.k)
    ELSE IF VariantIndex(def, j.s) = 0 THEN Ok(def.variants[1])
    ELSE Ok(def.variants[VariantIndex(def, j.s)])

(* The variant identifier of an enum: a string naming one of the variants. *)
DeserializeVariant(def, j) ==
    IF j.k # "string" THEN Err("invalid_type", j.k)
    ELSE IF VariantIndex(def, j.s) = 0 THEN Err("unknown_variant", j.s)
    ELSE Ok(def.variants[VariantIndex(def, j.s)])

DeserializeString(j) == IF j.k = "string" THEN Ok(j.s) ELSE Err("invalid_type", j.k)
DeserializeBool(j) == IF j.k = "bool" THEN Ok(j.b) ELSE Err("invalid_type", j.k)
(* Mutation: a number above u32::MAX is taken as u32::MAX. *)
DeserializeU32_Clamping(j) ==
    IF j.k # "number" THEN Err("invalid_type", j.k)
    ELSE IF ~IsDigits(j.text) THEN Err("invalid_type", j.text)
    ELSE IF ~DigitsLeq(j.text, U32MaxDigits) THEN Ok(U32Max)
    ELSE Ok(ParseU32(j.text, 1, U32(0)))

(* serde_json reads a number token as a u64 when it is digits that fit one,
   as an i64 when it is a minus sign and digits, and as an f64 otherwise;
   u32 takes a u64 or an i64 within 0..u32::MAX and refuses an f64. *)
DeserializeU32(j) ==
    IF j.k # "number" THEN Err("invalid_type", j.k)
    ELSE IF ~IsDigits(j.text)
         THEN IF CharAt(j.text, 1) = "-" /\ IsDigits(Tail(j.text)) /\ j.text # "-0"
              THEN Err("invalid_value", j.text)
              ELSE Err("invalid_type", j.text)
    ELSE IF ~DigitsLeq(j.text, U64MaxDigits) THEN Err("invalid_type", j.text)
    ELSE IF ~DigitsLeq(j.text, U32MaxDigits) THEN Err("invalid_value", j.text)
    ELSE Ok(ParseU32(j.text, 1, U32(0)))

(* f64 takes any number token; the model reads the tokens i and i.0. *)
DeserializeF64(j) ==
    IF j.k # "number" THEN Err("invalid_type", j.k)
    ELSE IF IsDigits(j.text) THEN Ok([fin |-> TRUE, n |-> ParseNat(j.text, 1, 0)])
    ELSE Ok([fin |-> TRUE,
             n |-> ParseNat(SubSeq(j.text, 1, Len(j.text) - 2), 1, 0)])

(* A unit-variant enum: the token as a string, or an object of one member
   whose key is the token and whose value is null. *)
DeserializeUnitEnum(def, j) ==
    CASE j.k = "string" ->
           LET r == DeserializeVariant(def, j)
           IN  IF r.ok THEN Ok(r.val.name) ELSE r
      [] j.k = "object" ->
           IF Len(j.o) # 1 THEN Err("invalid_value", "map")
           ELSE LET r == DeserializeVariant(def, JStr(j.o[1][1]))
                IN  IF ~r.ok THEN r
                    ELSE IF j.o[1][2].k # "null"
                         THEN Err("invalid_type", j.o[1][2].k)
                    ELSE Ok(r.val.name)
      [] OTHER -> Err("invalid_type", j.k)

RECURSIVE Deserialize(_, _)
RECURSIVE DeserializeVec(_, _, _, _)
RECURSIVE VisitMap(_, _, _, _)
RECURSIVE VisitSeq(_, _, _, _)
RECURSIVE TagScan(_, _, _, _, _)
RECURSIVE TryVariants(_, _, _)

(* Mutation: null is read as a T like any other value. *)
DeserializeOption_NullAsValue(ty, j) ==
    LET r == Deserialize(ty, j) IN IF r.ok THEN Ok(Some(r.val)) ELSE r

(* Option<T>: null is None, anything else is Some of T. *)
DeserializeOption(ty, j) ==
    IF j.k = "null" THEN Ok(None)
    ELSE LET r == Deserialize(ty, j) IN IF r.ok THEN Ok(Some(r.val)) ELSE r

DeserializeField(f, j) ==
    IF f.opt THEN DeserializeOption(f.ty, j) ELSE Deserialize(f.ty, j)

(* Mutation: an element that cannot be read is left out. *)
DeserializeVec_BestEffort(ty, a, i, acc) ==
    LET res == [m \in 1..Len(a) |-> Deserialize(ty, a[m])] \o <<>>
        good == SelectSeq([m \in 1..Len(a) |-> m], LAMBDA m : res[m].ok)
    IN  Ok([m \in 1..Len(good) |-> res[good[m]].val] \o <<>>)

(* Mutation: the elements are collected last to first. *)
DeserializeVec_Reversed(ty, a, i, acc) ==
    LET res == [m \in 1..Len(a) |-> Deserialize(ty, a[Len(a) + 1 - m])] \o <<>>
        bad == {m \in 1..Len(a) : ~res[m].ok}
    IN  IF bad # {} THEN res[CHOOSE m \in bad : TRUE]
        ELSE Ok([m \in 1..Len(a) |-> res[m].val] \o <<>>)

(* Vec<T>: the elements from the i-th on, in order, after acc; the first
   error ends it. *)
DeserializeVec(ty, a, i, acc) ==
    LET res == [m \in 1..Len(a) |->
                   IF m < i THEN Ok(<<>>) ELSE Deserialize(ty, a[m])] \o <<>>
        bad == {m \in i..Len(a) : ~res[m].ok}
    IN  IF bad # {} THEN res[CHOOSE m \in bad : \A h \in bad : m <= h]
        ELSE Ok(acc \o [m \in 1..(Len(a) - i + 1) |-> res[m + i - 1].val])

(* Mutation: a sequence no member set is empty. *)
MissingField_EmptyVec(def, f) ==
    IF f.opt THEN Ok(None)
    ELSE IF IsVec(f.ty) THEN Ok(<<>>)
    ELSE Err("missing_field", FieldKey(def, f))

(* A field no member set: an Option field is None, any other is an error. *)
MissingField(def, f) ==
    IF f.opt THEN Ok(None) ELSE Err("missing_field", FieldKey(def, f))

(* The struct once its members are read: acc maps each Rust field name to
   <<>> (not seen) or <<its value>>. *)
Finish(def, acc) ==
    LET missing == {i \in 1..Len(def.fields) :
                       /\ acc[def.fields[i].name] = <<>>
                       /\ ~MissingField(def, def.fields[i]).ok}
    IN  IF missing # {}
        THEN MissingField(def, def.fields[CHOOSE i \in missing :
                                              \A h \in missing : i <= h])
        ELSE Ok([n \in DOMAIN acc |-> IF acc[n] = <<>> THEN None ELSE acc[n][1]])

NothingSeen(def) ==
    [n \in {def.fields[i].name : i \in 1..Len(def.fields)} |-> <<>>]

(* Mutation: #[serde(deny_unknown_fields)], a key that is no field is an
   error. *)
VisitMap_DenyUnknown(def, members, i, acc) ==
    LET n == Len(members)
        fi == [m \in 1..n |-> FieldIndex(def, members[m][1])] \o <<>>
        Twice(m) == /\ fi[m] # 0
                    /\ \/ acc[def.fields[fi[m]].name] # <<>>
                       \/ \E h \in i..(m - 1) : fi[h] = fi[m]
        res == [m \in 1..n |->
                   IF m < i \/ fi[m] = 0 \/ Twice(m) THEN Ok(<<>>)
                   ELSE DeserializeField(def.fields[fi[m]], members[m][2])] \o <<>>
        bad == {m \in i..n : fi[m] = 0 \/ Twice(m) \/ ~res[m].ok}
        first == CHOOSE m \in bad : \A h \in bad : m <= h
        At(name) == {m \in i..n : fi[m] # 0 /\ def.fields[fi[m]].name = name}
    IN  IF bad # {}
        THEN IF fi[first] = 0 THEN Err("unknown_field", members[first][1])
             ELSE IF Twice(first) THEN Err("duplicate_field", members[first][1])
             ELSE res[first]
        ELSE Finish(def, [name \in DOMAIN acc |->
                             IF At(name) = {} THEN acc[name]
                             ELSE <<res[CHOOSE m \in At(name) : TRUE].val>>])

(* visit_map of a derived struct: members in text order, from the i-th on,
   acc holding the fields read before; a key that is no field is ignored; a
   field met twice is an error; the first error in text order ends it. *)
VisitMap(def, members, i, acc) ==
    LET n == Len(members)
        fi == [m \in 1..n |-> FieldIndex(def, members[m][1])] \o <<>>
        Twice(m) == /\ fi[m] # 0
                    /\ \/ acc[def.fields[fi[m]].name] # <<>>
                       \/ \E h \in i..(m - 1) : fi[h] = fi[m]
        res == [m \in 1..n |->
                   IF m < i \/ fi[m] = 0 \/ Twice(m) THEN Ok(<<>>)
                   ELSE DeserializeField(def.fields[fi[m]], members[m][2])] \o <<>>
        bad == {m \in i..n : Twice(m) \/ ~res[m].ok}
        first == CHOOSE m \in bad : \A h \in bad : m <= h
        At(name) == {m \in i..n : fi[m] # 0 /\ def.fields[fi[m]].name = name}
    IN  IF bad # {}
        THEN IF Twice(first) THEN Err("duplicate_field", members[first][1])
             ELSE res[first]
        ELSE Finish(def, [name \in DOMAIN acc |->
                             IF At(name) = {} THEN acc[name]
                             ELSE <<res[CHOOSE m \in At(name) : TRUE].val>>])

(* visit_seq of a derived struct: the fields by position. *)
VisitSeq(def, a, i, acc) ==
    IF i > Len(def.fields)
    THEN IF Len(a) > Len(def.fields) THEN Err("invalid_length", "array")
         ELSE Finish(def, acc)
    ELSE IF i > Len(a) THEN Err("invalid_length", "array")
    ELSE LET f == def.fields[i]
             r == DeserializeField(f, a[i])
         IN  IF ~r.ok THEN r
             ELSE VisitSeq(def, a, i + 1, [acc EXCEPT ![f.name] = <<r.val>>])

(* Mutation: a struct with a tag is read only from an object whose tag
   member names the struct. *)
DeserializeStruct_TagChecked(def, j) ==
    CASE j.k = "object" ->
           IF /\ def.tag # None
              /\ ~\E m \in 1..Len(j.o) : j.o[m] = <<def.tag[1], JStr(def.name)>>
           THEN Err("missing_field", def.tag[1])
           ELSE VisitMap(def, j.o, 1, NothingSeen(def))
      [] j.k = "array" -> VisitSeq(def, j.a, 1, NothingSeen(def))
      [] OTHER -> Err("invalid_type", j.k)

DeserializeStruct(def, j) ==
    CASE j.k = "object" -> VisitMap(def, j.o, 1, NothingSeen(def))
      [] j.k = "array" -> VisitSeq(def, j.a, 1, NothingSeen(def))
      [] OTHER -> Err("invalid_type", j.k)

(* Mutation: an object without the tag is read as the first variant. *)
MissingTag_FirstVariant(def, content) ==
    LET r == Deserialize(def.variants[1].ty, JObj(content))
    IN  IF r.ok THEN Ok(Variant(def.variants[1].name, r.val)) ELSE r

(* No member named by the tag. *)
MissingTag(def, content) == Err("missing_field", def.tag[1])

(* An internally tagged enum reads the whole object first: the member named
   by the tag selects the variant, the other members are kept, in order, for
   the variant's own type.  A second tag member is an error. *)
TagScan(def, members, i, tag, content) ==
    LET n == Len(members)
        tags == SelectSeq([m \in 1..n |-> m],
                          LAMBDA m : m >= i /\ members[m][1] = def.tag[1])
        kept == content \o SelectSeq(SubSeq(members, i, n),
                                     LAMBDA mm : mm[1] # def.tag[1])
        t == IF tag # None THEN Ok(tag[1])
             ELSE DeserializeVariant(def, members[tags[1]][2])
    IN  IF tag = None /\ Len(tags) = 0 THEN MissingTag(def, kept)
        ELSE IF ~t.ok THEN t
        ELSE IF Len(tags) > (IF tag = None THEN 1 ELSE 0)
        THEN Err("duplicate_field", def.tag[1])
        ELSE LET r == Deserialize(t.val.ty, JObj(kept))
             IN  IF r.ok THEN Ok(Variant(t.val.name, r.val)) ELSE r

(* As an array, the first element is the tag and the rest the content. *)
DeserializeTagged(def, j) ==
    CASE j.k = "object" -> TagScan(def, j.o, 1, None, <<>>)
      [] j.k = "array" ->
           IF Len(j.a) = 0 THEN Err("invalid_length", "array")
           ELSE LET t == DeserializeVariant(def, j.a[1])
                IN  IF ~t.ok THEN t
                    ELSE LET r == Deserialize(t.val.ty, JArr(Tail(j.a)))
                         IN  IF r.ok THEN Ok(Variant(t.val.name, r.val)) ELSE r
      [] OTHER -> Err("invalid_type", j.k)

(* #[serde(untagged)]: the first variant, in declaration order, whose type
   reads the value. *)
TryVariants(def, j, i) ==
    IF i > Len(def.variants) THEN Err("no_variant_matched", def.name)
    ELSE LET r == Deserialize(def.variants[i].ty, j)
         IN  IF r.ok THEN Ok(Variant(def.variants[i].name, r.val))
             ELSE TryVariants(def, j, i + 1)

DeserializeUntagged(def, j) == TryVariants(def, j, 1)

(* #[serde(transparent)] *)
DeserializeColumnWidth(j) ==
    LET r == Deserialize("ColumnWidthKind", j)
    IN  IF r.ok THEN Ok([kind |-> r.val]) ELSE r

Deserialize(ty, j) ==
    CASE ty = "String" -> DeserializeString(j)
      [] ty = "bool" -> DeserializeBool(j)
      [] ty = "u32" -> DeserializeU32(j)
      [] ty = "f64" -> DeserializeF64(j)
      [] ty = "Value" -> Ok(j)
      [] IsVec(ty) -> IF j.k = "array" THEN DeserializeVec(ElemTy(ty), j.a, 1, <<>>)
                      ELSE Err("invalid_type", j.k)
      [] IsBox(ty) -> Deserialize(ElemTy(ty), j)
      [] ty = "ColumnWidth" -> DeserializeColumnWidth(j)
      [] ty \in UntaggedEnumNames -> DeserializeUntagged(TypeDef(ty), j)
      [] ty \in UnitEnumNames -> DeserializeUnitEnum(TypeDef(ty), j)
      [] ty \in TaggedEnumNames -> DeserializeTagged(TypeDef(ty), j)
      [] ty \in StructNames -> DeserializeStruct(TypeDef(ty), j)

---------------------------------------------------------------------------
(* Construction *)

SchemaUrl == "http://adaptivecards.io/schemas/adaptive-card.json"

(* impl Default for AdaptiveCard *)
DefaultCard ==
    [schema |-> SchemaUrl, version |-> "V1_2", body |-> <<>>,
     msteams |-> None, actions |-> None, select_action |-> None,
     fallback_text |-> None, min_height |-> None,
     vertical_content_alignment |-> None, rtl |-> None, lang |-> None]

(* The four constructors of ColumnWidth. *)
auto == [kind |-> Variant("Auto", "auto")]
(* Mutation: stretch() builds the kind named after it. *)
stretch_OwnKind == [kind |-> Variant("Stretch", "stretch")]
stretch == [kind |-> Variant("Auto", "stretch")]
(* Mutation: the unit suffix is left out. *)
pixels_NoSuffix(px) == [kind |-> Variant("Auto", FormatU32(px))]

pixels(px) == [kind |-> Variant("Auto", FormatU32(px) \o "px")]
weight(w) == [kind |-> Variant("Relative", w)]

NaN == [fin |-> FALSE, c |-> "NaN"]
Float(n) == [fin |-> TRUE, n |-> n]

With(v, field, x) == [v EXCEPT ![field] = x]

(* Bounds of the values the application builds. *)
MaxItems == 2
MaxDepth == 2

RECURSIVE SampleValue(_)
RECURSIVE MinOf(_)

(* A struct literal with every Option field None. *)
MinOf(s) ==
    IF s = "AdaptiveCard" THEN DefaultCard
    ELSE LET def == TypeDef(s)
         IN  [n \in {def.fields[i].name : i \in 1..Len(def.fields)} |->
                 LET f == def.fields[CHOOSE i \in 1..Len(def.fields) :
                                         def.fields[i].name = n]
                 IN  IF f.opt THEN None ELSE SampleValue(f.ty)]

(* One plain value of each type. *)
SampleValue(t) ==
    CASE t = "String" -> "s"
      [] t = "bool" -> TRUE
      [] t = "u32" -> U32(7)
      [] t = "f64" -> Float(1)
      [] t = "Value" -> JStr("v")
      [] IsVec(t) -> <<>>
      [] IsBox(t) -> SampleValue(ElemTy(t))
      [] t = "ColumnWidth" -> auto
      [] t = "Inline" -> Variant("Text", "s")
      [] t \in UnitEnumNames -> TypeDef(t).variants[1].name
      [] t \in TaggedEnumNames ->
           Variant(TypeDef(t).variants[1].name, MinOf(TypeDef(t).variants[1].ty))
      [] t \in StructNames -> MinOf(t)

(* A struct literal with every Option field Some. *)
FullOf(s) ==
    LET def == TypeDef(s)
    IN  [n \in {def.fields[i].name : i \in 1..Len(def.fields)} |->
            LET f == def.fields[CHOOSE i \in 1..Len(def.fields) :
                                    def.fields[i].name = n]
            IN  IF f.opt THEN Some(SampleValue(f.ty)) ELSE MinOf(s)[n]]

WidthNumbers ==
    { U32(0), U32(2), U32(9), U32(10), U32(200), U32(Half - 1), U32(Half),
      U32(1000000), U32Max }

ColumnWidths ==
    {auto, stretch} \cup {pixels(n) : n \in WidthNumbers}
                    \cup {weight(n) : n \in WidthNumbers}

(* The values an Option field is given, by its type. *)
ValuesOf(t) ==
    CASE t = "String" -> {"s"}
      [] t = "bool" -> BOOLEAN
      [] t = "u32" -> {U32(0), U32(100), U32Max}
      [] t = "f64" -> {Float(0), Float(120), NaN}
      [] t = "Value" -> { JNull, JBool(TRUE), JNum("1"), JStr("v"),
                          JArr(<<JNull>>), JObj(<< <<"k", JStr("v")>> >>) }
      [] t = "Vec<Action>" -> { <<>>, <<SampleValue("Action")>> }
      [] t = "Vec<InputChoice>" -> { <<>>, <<MinOf("InputChoice")>> }
      [] t = "Box<Action>" ->
           { Variant(TypeDef("Action").variants[i].name,
                     MinOf(TypeDef("Action").variants[i].ty)) :
               i \in 1..Len(TypeDef("Action").variants) }
      [] t = "MsTeams" -> { MinOf("MsTeams"), FullOf("MsTeams") }
      [] t \in UnitEnumNames ->
           { TypeDef(t).variants[i].name : i \in 1..Len(TypeDef(t).variants) }

(* The struct literals with exactly one Option field Some. *)
OneFieldSet(s) ==
    LET def == TypeDef(s)
    IN  UNION { { With(MinOf(s), def.fields[i].name, Some(x)) :
                    x \in ValuesOf(def.fields[i].ty) } :
                i \in {h \in 1..Len(def.fields) : def.fields[h].opt} }

StructValues(s) == {MinOf(s), FullOf(s)} \cup OneFieldSet(s)

(* Every variant of a tagged enum, over the values of the struct it wraps. *)
VariantValues(t) ==
    UNION { { Variant(TypeDef(t).variants[i].name, x) :
                x \in StructValues(TypeDef(t).variants[i].ty) } :
            i \in 1..Len(TypeDef(t).variants) }

TextBlockOf(text) == Variant("TextBlock", With(MinOf("TextBlock"), "text", text))

(* Sequences of distinguishable elements, up to MaxItems long. *)
RECURSIVE SeqsUpTo(_, _)
SeqsUpTo(S, n) ==
    IF n = 0 THEN {<<>>}
    ELSE SeqsUpTo(S, n - 1) \cup
         { Append(q, x) : q \in {r \in SeqsUpTo(S, n - 1) : Len(r) = n - 1}, x \in S }

SmallElements ==
    { TextBlockOf("a"), TextBlockOf("b"),
      Variant("Image", With(MinOf("Image"), "url", "u")) }

SmallActions ==
    { Variant("OpenUrl", With(MinOf("OpenUrlAction"), "url", "u")),
      Variant("Submit", MinOf("SubmitAction")) }

(* A ShowCard action whose card shows, in an ActionSet, a ShowCard action,
   and so on, n documents deep. *)
RECURSIVE NestedCard(_)
NestedCard(n) ==
    IF n <= 1 THEN With(DefaultCard, "body", <<TextBlockOf("leaf")>>)
    ELSE With(DefaultCard, "body",
              << Variant("ActionSet",
                   [actions |->
                      << Variant("ShowCard",
                            With(MinOf("ShowCardAction"), "card",
                                 NestedCard(n - 1))) >>]) >>)

(* A schema marker other than the one Default gives: the field is public. *)
OtherSchema == "urn:example:card"
OtherSchemaCard == With(DefaultCard, "schema", OtherSchema)

(* A card whose select_action is a ShowCard action: the field takes any
   Action. *)
ShowCardSelectCard ==
    With(DefaultCard, "select_action",
         Some(Variant("ShowCard",
                 With(MinOf("ShowCardAction"), "card", NestedCard(1)))))

(* Three documents: the root shows, from its actions, a document that shows,
   from an ActionSet of its body, a third. *)
ThreeLevelCard ==
    With(DefaultCard, "actions",
         Some(<< Variant("ShowCard",
                    With(MinOf("ShowCardAction"), "card", NestedCard(2))) >>))

(* The literal card of the crate's documentation and first test. *)
HelloTextBlock ==
    [MinOf("TextBlock") EXCEPT !["text"] = "Hello, Adaptive Card!",
                               !["size"] = Some("Large"),
                               !["weight"] = Some("Bolder"),
                               !["wrap"] = Some(TRUE),
                               !["is_subtle"] = Some(FALSE)]
HelloCard ==
    [DefaultCard EXCEPT !["version"] = "V1_3",
                        !["body"] = <<Variant("TextBlock", HelloTextBlock)>>]

Elements ==
    VariantValues("CardElement")
    \cup { Variant("Container", With(MinOf("Container"), "items", q)) :
             q \in SeqsUpTo(SmallElements, MaxItems) }
    \cup { Variant("ColumnSet",
                   [columns |-> << [width |-> w, items |-> <<TextBlockOf("a")>>] >>]) :
             w \in ColumnWidths }
    \cup { Variant("ColumnSet",
                   [columns |-> [i \in 1..Len(q) |-> [width |-> auto, items |-> <<q[i]>>]]]) :
             q \in SeqsUpTo(SmallElements, MaxItems) }
    \cup { Variant("ActionSet", [actions |-> q]) :
             q \in SeqsUpTo(SmallActions, MaxItems) }
    \cup { Variant("RichTextBlock",
                   With(MinOf("RichTextBlock"), "inlines",
                        << Variant("Text", "s"), Variant("TextRun", r) >>)) :
             r \in StructValues("TextRun") }
    \cup { Variant("RichTextBlock",
                   With(MinOf("RichTextBlock"), "inlines",
                        << Variant("TextRun",
                              With(MinOf("TextRun"), "type_field", ty)) >>)) :
             ty \in {"TextRun", "Image"} }
    \cup { Variant("FactSet", [facts |-> << [title |-> "t", value |-> "1"],
                                           [title |-> "u", value |-> "2"] >>]) }

Actions ==
    VariantValues("Action")
    \cup { Variant("ShowCard", With(MinOf("ShowCardAction"), "card", NestedCard(n))) :
             n \in 1..(MaxDepth - 1) }
    \cup { Variant("ShowCard", With(MinOf("ShowCardAction"), "card", OtherSchemaCard)) }
    \cup { Variant("ToggleVisibility",
                   With(MinOf("ToggleVisibilityAction"), "target_elements", <<"a", "b">>)) }

Cards ==
    StructValues("AdaptiveCard")
    \cup { With(DefaultCard, "version", v) : v \in ValuesOf("Version") }
    \cup { With(DefaultCard, "body", q) : q \in SeqsUpTo(SmallElements, MaxItems) }
    \cup { With(DefaultCard, "body", <<e>>) :
             e \in { Variant(TypeDef("CardElement").variants[i].name,
                             FullOf(TypeDef("CardElement").variants[i].ty)) :
                       i \in 1..Len(TypeDef("CardElement").variants) } }
    \cup { With(DefaultCard, "actions", Some(q)) : q \in SeqsUpTo(SmallActions, MaxItems) }
    \cup { NestedCard(n) : n \in 1..MaxDepth }
    \cup { HelloCard, ThreeLevelCard, OtherSchemaCard, ShowCardSelectCard }

(* The values of the enums without data. *)
VariantNames(e) == { TypeDef(e).variants[i].name : i \in 1..Len(TypeDef(e).variants) }
LiteralValues == UNION { { <<e, n>> : n \in VariantNames(e) } : e \in UnitEnumNames }

(* The calls to_string is given: the type and the value. *)
Built ==
    { <<"AdaptiveCard", c>> : c \in Cards }
    \cup { <<"CardElement", e>> : e \in Elements }
    \cup { <<"Action", a>> : a \in Actions }
    \cup { <<"ColumnWidth", w>> : w \in ColumnWidths }
    \cup LiteralValues

---------------------------------------------------------------------------
(* JSON texts that arrive from elsewhere *)

Tokens(def) == { VariantToken(def, def.variants[i]) : i \in 1..Len(def.variants) }
NodeTags == Tokens(CardElement)
ActionTags == Tokens(Action)

(* Tags of no table, and the known tags in another letter case. *)
StrangeTags ==
    ({ "Action.DoesNotExist", "Bogus", "", "Column", "AdaptiveCard", "TextRun" }
     \cup { LowerAll(t) : t \in NodeTags \cup ActionTags }
     \cup { UpperAll(t) : t \in NodeTags \cup ActionTags }
     \cup { LowerFirst(t) : t \in NodeTags \cup ActionTags })
    \ (NodeTags \cup ActionTags)

CandidateTags == NodeTags \cup ActionTags \cup StrangeTags

(* Members that give every node variant and every action variant the
   fields it requires. *)
RichMembers ==
    << <<"text", JStr("s")>>,
       <<"items", JArr(<<>>)>>,
       <<"columns", JArr(<<>>)>>,
       <<"url", JStr("u")>>,
       <<"actions", JArr(<<>>)>>,
       <<"facts", JArr(<<>>)>>,
       <<"inlines", JArr(<<>>)>>,
       <<"id", JStr("i")>>,
       <<"title", JStr("t")>>,
       <<"card", Serialize("AdaptiveCard", DefaultCard)>>,
       <<"targetElements", JArr(<<>>)>> >>

TagFirst(tag) == JObj(<< <<"type", JStr(tag)>> >> \o RichMembers)
TagLast(tag) == JObj(RichMembers \o << <<"type", JStr(tag)>> >>)
NoTag == JObj(RichMembers)

(* The object j with the member key set to v. *)
SetMember(j, key, v) ==
    IF HasKey(j, key)
    THEN JObj([i \in 1..Len(j.o) |-> IF j.o[i][1] = key THEN <<key, v>> ELSE j.o[i]])
    ELSE JObj(Append(j.o, <<key, v>>))

CardText == Serialize("AdaptiveCard", DefaultCard)

(* A node object j, where a node is read. *)
InBody(j) == SetMember(CardText, "body", JArr(<<j>>))
InContainerItems(j) ==
    JObj(<< <<"type", JStr("Container")>>, <<"items", JArr(<<j>>)>> >>)
InColumnItems(j) ==
    JObj(<< <<"type", JStr("ColumnSet")>>,
            <<"columns", JArr(<< JObj(<< <<"type", JStr("Column")>>,
                                         <<"width", JStr("auto")>>,
                                         <<"items", JArr(<<j>>)>> >>) >>)>> >>)

(* A card text c, where a ShowCard action holds its card. *)
InShowCard(c) == JObj(<< <<"type", JStr("Action.ShowCard")>>, <<"card", c>> >>)

(* Card texts whose $schema is some other string, or no string. *)
SchemaTexts ==
    { SetMember(CardText, "$schema", j) :
        j \in { JStr(SchemaUrl), JStr(OtherSchema), JStr(""), JNull, JNum("1") } }

(* A ColumnSet of two columns of two items each, as another producer writes
   it. *)
TwoColumnsText ==
    JObj(<< <<"type", JStr("ColumnSet")>>,
            <<"columns",
              JArr(<< JObj(<< <<"type", JStr("Column")>>,
                              <<"width", JStr("auto")>>,
                              <<"items", JArr(<< Serialize("CardElement", TextBlockOf("a")),
                                                 Serialize("CardElement", TextBlockOf("b")) >>)>> >>),
                      JObj(<< <<"type", JStr("Column")>>,
                              <<"width", JNum("2")>>,
                              <<"items", JArr(<< Serialize("CardElement", TextBlockOf("b")),
                                                 Serialize("CardElement", TextBlockOf("a")) >>)>> >>) >>)>> >>)

(* The texts read as a value of an enum without data: the names and tokens in several letter cases, and values that are no string. *)
LiteralStrings(e) ==
    UNION { {n, LowerFirst(n), LowerAll(n), UpperAll(n)} : n \in VariantNames(e) }
    \cup Tokens(TypeDef(e)) \cup { "", "1.7", "1", "bogus" }
NonStrings(e) ==
    UNION { { JObj(<< <<t, JNull>> >>), JObj(<< <<t, JStr(t)>> >>),
              JObj(<< <<t, JNull>>, <<t, JNull>> >>), JArr(<< JStr(t) >>) } :
            t \in Tokens(TypeDef(e)) }
    \cup { JNull, JBool(TRUE), JNum("1"), JNum("1.2"), JObj(<<>>),
           JObj(<< <<"bogus", JNull>> >>) }
LiteralTexts ==
    UNION { { <<e, JStr(s)>> : s \in LiteralStrings(e) } : e \in UnitEnumNames }
    \cup UNION { { <<e, j>> : j \in NonStrings(e) } : e \in UnitEnumNames }

(* The card text with j as its version. *)
WithVersion(j) == SetMember(CardText, "version", j)
VersionTexts ==
    { WithVersion(JStr(s)) : s \in LiteralStrings("Version") }
    \cup { WithVersion(j) : j \in NonStrings("Version") }

(* Every optional field of a card, of a node variant and of an action
   variant, with a text of the least value of the variant: f is the field,
   t the type the text is read as, base the text. *)
OptionalFields(sname) ==
    { TypeDef(sname).fields[i] : i \in { h \in 1..Len(TypeDef(sname).fields) :
                                            TypeDef(sname).fields[h].opt } }
NullPlaces ==
    { [t |-> "AdaptiveCard", base |-> CardText, f |-> f] :
        f \in OptionalFields("AdaptiveCard") }
    \cup UNION { UNION { { [t |-> e,
                            base |-> Serialize(e, Variant(TypeDef(e).variants[i].name,
                                                          MinOf(TypeDef(e).variants[i].ty))),
                            f |-> f] :
                            f \in OptionalFields(TypeDef(e).variants[i].ty) } :
                        i \in 1..Len(TypeDef(e).variants) } :
                e \in {"CardElement", "Action"} }
NullTexts == { <<p.t, SetMember(p.base, p.f.key, JNull)>> : p \in NullPlaces }

(* The text of the least value of a variant, and a text without one of its
   members. *)
MinText(e, name) ==
    Serialize(e, Variant(name, MinOf(VariantNamed(TypeDef(e), name).ty)))
WithoutMember(j, key) == JObj(SelectSeq(j.o, LAMBDA m : m[1] # key))
OneColumn(col) ==
    JObj(<< <<"type", JStr("ColumnSet")>>, <<"columns", JArr(<<col>>)>> >>)
SampleColumn == Member(TwoColumnsText, "columns").a[1]

(* The fields that are no Option, by the type read (t), a text that is read
   well (base) and the key of the field. *)
RequiredPlaces ==
    { [t |-> "AdaptiveCard", base |-> CardText, key |-> k] :
        k \in {"$schema", "version", "body"} }
    \cup { [t |-> "CardElement", base |-> MinText("CardElement", p[1]), key |-> p[2]] :
             p \in { <<"TextBlock", "text">>, <<"Container", "items">>,
                      <<"Image", "url">>, <<"FactSet", "facts">>,
                      <<"RichTextBlock", "inlines">>, <<"InputText", "id">>,
                      <<"InputNumber", "id">>, <<"InputDate", "id">>,
                      <<"InputTime", "id">>, <<"InputToggle", "id">>,
                      <<"InputToggle", "title">>, <<"InputChoiceSet", "id">> } }
    \cup { [t |-> "CardElement", base |-> OneColumn(SampleColumn), key |-> "columns"] }
    \cup { [t |-> "Action", base |-> MinText("Action", p[1]), key |-> p[2]] :
             p \in { <<"OpenUrl", "url">>, <<"ShowCard", "card">>,
                      <<"ToggleVisibility", "targetElements">> } }
ColumnKeys == {"width", "items"}
MissingTexts ==
    { <<p.t, WithoutMember(p.base, p.key)>> : p \in RequiredPlaces }
    \cup { <<p.t, p.base>> : p \in RequiredPlaces }
    \cup { <<"CardElement", OneColumn(WithoutMember(SampleColumn, k))>> : k \in ColumnKeys }

(* A RichTextBlock whose one inline is an object of the type ty. *)
InlineText(ty) ==
    JObj(<< <<"type", JStr("RichTextBlock")>>,
            <<"inlines", JArr(<< JObj(<< <<"type", JStr(ty)>>,
                                         <<"text", JStr("t")>> >>) >>)>> >>)
InlineTexts == { InlineText(ty) : ty \in {"TextRun", "textRun", "Image", ""} }

(* A body of two nodes. *)
InBodyOfTwo(j1, j2) == SetMember(CardText, "body", JArr(<<j1, j2>>))

(* An action object j, where an action is read. *)
InActions(j) == SetMember(CardText, "actions", JArr(<<j>>))
InSelectAction(j) == SetMember(CardText, "selectAction", j)
InContainerSelectAction(j) ==
    JObj(<< <<"type", JStr("Container")>>, <<"items", JArr(<<>>)>>,
            <<"selectAction", j>> >>)
InActionSet(j) ==
    JObj(<< <<"type", JStr("ActionSet")>>, <<"actions", JArr(<<j>>)>> >>)

(* A node object j three documents and a Container deep. *)
InDeepCard(j) ==
    InActions(InShowCard(InBody(InActionSet(InShowCard(InBody(InContainerItems(j)))))))

NodeObjects == {NoTag} \cup {TagFirst(t) : t \in CandidateTags}
                       \cup {TagLast(t) : t \in CandidateTags}
ActionObjects == NodeObjects
DeepObjects == { NoTag, TagFirst("Bogus"), TagFirst("TextBlock"), TagLast("Image") }

(* Texts read as a column width, alone and as the width of a Column. *)
(* Integers written as JSON numbers, around the ends of u32 and of u64. *)
IntegerTexts ==
    { "0", "7", "200", "65535", "65536", "4294967295", "4294967296",
      "4294967297", "4294967495", "8589934591", "18446744073709551615",
      "18446744073709551616", "-0", "-1", "-200", "-4294967295",
      "-4294967296" }

WidthTexts ==
    { JNum("200"), JNum("0"), JNum("7"), JNum("-1"), JNum("1.5"),
      JStr("200px"), JStr("0px"), JStr("auto"), JStr("stretch"),
      JStr("stretchX"), JStr(""), JStr("px"), JStr("12 px"), JStr("Auto"),
      JBool(TRUE), JNull, JArr(<<>>), JObj(<<>>) }
    \cup { JNum(n) : n \in IntegerTexts }
InColumnWidth(j) ==
    JObj(<< <<"type", JStr("ColumnSet")>>,
            <<"columns", JArr(<< JObj(<< <<"type", JStr("Column")>>,
                                         <<"width", j>>,
                                         <<"items", JArr(<<>>)>> >>) >>)>> >>)

(* The calls from_str is given on a text from elsewhere: the type and the
   text. *)
(* Root objects that differ in the type member alone: without it, with the
   struct's name, with another string, first or last among the members. *)
TypeValues ==
    { JStr("AdaptiveCard"), JStr("Bogus"), JStr(""), JStr("adaptiveCard"),
      JStr("Container") }
TypeBases ==
    << CardText, Serialize("AdaptiveCard", HelloCard),
       WithoutMember(CardText, "body") >>
TypeForms(b) ==
    { WithoutMember(b, "type") }
    \cup { SetMember(b, "type", tv) : tv \in TypeValues }
    \cup { JObj(Append(WithoutMember(b, "type").o, <<"type", tv>>)) :
             tv \in TypeValues }
TypeTexts ==
    { <<"AdaptiveCard", f>> : f \in UNION { TypeForms(TypeBases[i]) :
                                              i \in 1..Len(TypeBases) } }
    \cup { <<"Action", InShowCard(f)>> : f \in TypeForms(CardText) }

(* Texts of a document, of nodes and of actions, and the same texts with one
   more member, first or last, under a key that is no field of any variant:
   no tag, no field in another letter case, the Rust name of a field. *)
ExtraKeys == { "extra", "Type", "select_action", "URL", "$Schema" }
ExtraValues ==
    { JNull, JStr("v"), JArr(<< JNum("1") >>),
      JObj(<< <<"type", JStr("TextBlock")>> >>) }
ExtraBases ==
    << <<"AdaptiveCard", CardText>>,
       <<"AdaptiveCard", Serialize("AdaptiveCard", HelloCard)>>,
       <<"CardElement", Serialize("CardElement", TextBlockOf("a"))>>,
       <<"CardElement", JObj(<< <<"type", JStr("TextBlock")>> >>)>>,
       <<"CardElement", InContainerItems(Serialize("CardElement", TextBlockOf("a")))>>,
       <<"Action", Serialize("Action", Variant("OpenUrl",
                                 With(MinOf("OpenUrlAction"), "url", "u")))>>,
       <<"Action", InShowCard(CardText)>>,
       <<"Action", JObj(<< <<"type", JStr("Action.OpenUrl")>> >>)>> >>
WithExtra(b) ==
    { JObj(Append(b.o, <<k, v>>)) : k \in ExtraKeys, v \in ExtraValues }
    \cup { JObj(<< <<k, v>> >> \o b.o) : k \in ExtraKeys, v \in ExtraValues }
ExtraTexts ==
    UNION { { <<ExtraBases[i][1], f>> : f \in WithExtra(ExtraBases[i][2]) } :
              i \in 1..Len(ExtraBases) }
    \cup { <<ExtraBases[i][1], ExtraBases[i][2]>> : i \in 1..Len(ExtraBases) }
    \cup { <<"AdaptiveCard", InBody(f)>> : f \in WithExtra(ExtraBases[3][2]) }
    \cup { <<"AdaptiveCard", InActions(f)>> : f \in WithExtra(ExtraBases[6][2]) }

Received ==
    { <<"CardElement", j>> : j \in NodeObjects }
    \cup { <<"Action", j>> : j \in ActionObjects }
    \cup { <<"AdaptiveCard", InBody(j)>> : j \in NodeObjects }
    \cup { <<"CardElement", InContainerItems(j)>> : j \in NodeObjects }
    \cup { <<"CardElement", InColumnItems(j)>> : j \in NodeObjects }
    \cup { <<"AdaptiveCard", InActions(j)>> : j \in ActionObjects }
    \cup { <<"AdaptiveCard", InSelectAction(j)>> : j \in ActionObjects }
    \cup { <<"CardElement", InContainerSelectAction(j)>> : j \in ActionObjects }
    \cup { <<"CardElement", InActionSet(j)>> : j \in ActionObjects }
    \cup { <<"ColumnWidth", j>> : j \in WidthTexts }
    \cup { <<"CardElement", InColumnWidth(j)>> : j \in WidthTexts }
    \cup { <<"AdaptiveCard", c>> : c \in SchemaTexts }
    \cup { <<"CardElement", TwoColumnsText>> }
    \cup LiteralTexts
    \cup { <<"CardElement", j>> : j \in InlineTexts }
    \cup MissingTexts
    \cup NullTexts
    \cup { <<"AdaptiveCard", InDeepCard(j)>> : j \in DeepObjects }
    \cup { <<"AdaptiveCard", InBodyOfTwo(j1, j2)>> : j1, j2 \in DeepObjects }
    \cup { <<"AdaptiveCard", InSelectAction(InShowCard(CardText))>> }
    \cup { <<"AdaptiveCard", c>> : c \in VersionTexts }
    \cup { <<"Action", InShowCard(c)>> : c \in SchemaTexts }
    \cup TypeTexts
    \cup ExtraTexts

---------------------------------------------------------------------------
(* serde_json::to_string and serde_json::from_str *)
to_string(t, v) == Serialize(t, v)
from_str(t, j) == Deserialize(t, j)

---------------------------------------------------------------------------
(* Several calls at once.  Each call has its own value, text and result,
   as each to_string and from_str has its own argument and returns its own
   String or value; a call is begun and later ended, and other calls may
   step in between. *)
NCalls == 2
CallIds == 1..NCalls
IdleCall == [pc |-> "idle", typ |-> "", value |-> None, wire |-> None, result |-> None]
CallValues ==
    { <<"AdaptiveCard", HelloCard>>, <<"CardElement", TextBlockOf("a")>>,
      <<"ColumnWidth", pixels(U32(200))>> }
CallTexts ==
    { <<"AdaptiveCard", CardText>>, <<"CardElement", NoTag>>,
      <<"ColumnWidth", JStr("auto")>> }

Init == /\ pc = "idle"
        /\ typ = ""
        /\ value = None
        /\ wire = None
        /\ result = None
        /\ calls = [i \in CallIds |-> IdleCall]

(* The application builds a value. *)
Construct(t, v) ==
    /\ pc = "idle"
    /\ pc' = "built"
    /\ typ' = t
    /\ value' = Some(v)
    /\ UNCHANGED <<wire, result, calls>>

(* serde_json::to_string(&value) *)
Encode ==
    /\ pc = "built"
    /\ pc' = "encoded"
    /\ wire' = Some(to_string(typ, value[1]))
    /\ UNCHANGED <<typ, value, result, calls>>

(* A JSON text arrives, to be read as a t. *)
Receive(t, j) ==
    /\ pc = "idle"
    /\ pc' = "received"
    /\ typ' = t
    /\ wire' = Some(j)
    /\ UNCHANGED <<value, result, calls>>

(* serde_json::from_str::<typ>(&wire) *)
Decode ==
    /\ pc \in {"encoded", "received"}
    /\ pc' = "decoded"
    /\ result' = Some(from_str(typ, wire[1]))
    /\ UNCHANGED <<typ, value, wire, calls>>

(* The call is over. *)
Reset ==
    /\ pc = "decoded"
    /\ pc' = "idle"
    /\ typ' = ""
    /\ value' = None
    /\ wire' = None
    /\ result' = None
    /\ UNCHANGED calls

Next ==
    \/ \E b \in Built : Construct(b[1], b[2])
    \/ Encode
    \/ \E r \in Received : Receive(r[1], r[2])
    \/ Decode
    \/ Reset

Spec == Init /\ [][Next]_vars

---------------------------------------------------------------------------
(* The calls of several callers, interleaved *)

(* Mutation: every call writes where the first call does. *)
OutputOf_Shared(i) == 1

(* The call whose wire or result call i writes: its own. *)
OutputOf(i) == i

CallConstruct(i, t, v) ==
    /\ calls[i].pc = "idle"
    /\ calls' = [calls EXCEPT ![i] = [IdleCall EXCEPT !.pc = "built", !.typ = t,
                                                     !.value = Some(v)]]
    /\ UNCHANGED <<pc, typ, value, wire, result>>

(* to_string(&value) is entered: the value is borrowed, nothing is written. *)
CallEncodeBegin(i) ==
    /\ calls[i].pc = "built"
    /\ calls' = [calls EXCEPT ![i].pc = "encoding"]
    /\ UNCHANGED <<pc, typ, value, wire, result>>

(* to_string returns its String. *)
CallEncodeEnd(i) ==
    /\ calls[i].pc = "encoding"
    /\ calls' = [calls EXCEPT
                   ![OutputOf(i)].wire = Some(to_string(calls[i].typ, calls[i].value[1])),
                   ![i].pc = "encoded"]
    /\ UNCHANGED <<pc, typ, value, wire, result>>

CallReceive(i, t, j) ==
    /\ calls[i].pc = "idle"
    /\ calls' = [calls EXCEPT ![i] = [IdleCall EXCEPT !.pc = "received", !.typ = t,
                                                     !.wire = Some(j)]]
    /\ UNCHANGED <<pc, typ, value, wire, result>>

(* from_str(&text) is entered. *)
CallDecodeBegin(i) ==
    /\ calls[i].pc \in {"encoded", "received"}
    /\ calls' = [calls EXCEPT ![i].pc = "decoding"]
    /\ UNCHANGED <<pc, typ, value, wire, result>>

(* from_str returns its Result. *)
CallDecodeEnd(i) ==
    /\ calls[i].pc = "decoding"
    /\ calls' = [calls EXCEPT
                   ![OutputOf(i)].result = Some(from_str(calls[i].typ, calls[i].wire[1])),
                   ![i].pc = "decoded"]
    /\ UNCHANGED <<pc, typ, value, wire, result>>

CallReset(i) ==
    /\ calls[i].pc = "decoded"
    /\ calls' = [calls EXCEPT ![i] = IdleCall]
    /\ UNCHANGED <<pc, typ, value, wire, result>>

NextCalls ==
    \E i \in CallIds :
       \/ \E b \in CallValues : CallConstruct(i, b[1], b[2])
       \/ CallEncodeBegin(i)
       \/ CallEncodeEnd(i)
       \/ \E r \in CallTexts : CallReceive(i, r[1], r[2])
       \/ CallDecodeBegin(i)
       \/ CallDecodeEnd(i)
       \/ CallReset(i)

SpecCalls == Init /\ [][NextCalls]_vars

---------------------------------------------------------------------------
(* Properties of to_string and from_str.  The tags below are written out as
   the documentation lists them, next to the Rust variant that carries
   each. *)
NodeTagOf ==
    [TextBlock |-> "TextBlock", Container |-> "Container",
     ColumnSet |-> "ColumnSet", Image |-> "Image", ActionSet |-> "ActionSet",
     FactSet |-> "FactSet", RichTextBlock |-> "RichTextBlock",
     InputText |-> "Input.Text", InputNumber |-> "Input.Number",
     InputDate |-> "Input.Date", InputTime |-> "Input.Time",
     InputToggle |-> "Input.Toggle", InputChoiceSet |-> "Input.ChoiceSet"]
ActionTagOf ==
    [OpenUrl |-> "Action.OpenUrl", Submit |-> "Action.Submit",
     ShowCard |-> "Action.ShowCard",
     ToggleVisibility |-> "Action.ToggleVisibility"]
ListedTagOf(family) == IF family = "CardElement" THEN NodeTagOf ELSE ActionTagOf
ListedTags(family) == {ListedTagOf(family)[n] : n \in DOMAIN ListedTagOf(family)}

(* A node object obj wherever the documents read a node, and an action
   object wherever they read an action. *)
NodePlaces(obj) == {InBody(obj), InContainerItems(obj), InColumnItems(obj)}
ActionPlaces(obj) ==
    {InActions(obj), InSelectAction(obj), InContainerSelectAction(obj),
     InActionSet(obj)}

(* The object j has exactly the members of the set ms, in any order. *)
SameMembers(j, ms) ==
    /\ j.k = "object"
    /\ Len(j.o) = Cardinality(ms)
    /\ {j.o[i] : i \in 1..Len(j.o)} = ms

(* C1: whatever value was built, decoding its encoding succeeds and gives the
   value back. *)
RoundTrip ==
    (pc = "decoded" /\ value # None) => result[1] = Ok(value[1])

(* C2: the version 1.3 card whose body is the one TextBlock "Hello, Adaptive
   Card!" (Large, Bolder, wrap, not subtle) encodes as the object with type,
   $schema, version and body, the body holding the one object with type,
   text, size, weight, wrap and isSubtle, and nothing else at either
   level. *)
HelloEncoding ==
    (pc = "encoded" /\ typ = "AdaptiveCard" /\ value = Some(HelloCard)) =>
        /\ SameMembers(wire[1],
             { <<"type", JStr("AdaptiveCard")>>,
               <<"$schema",
                 JStr("http://adaptivecards.io/schemas/adaptive-card.json")>>,
               <<"version", JStr("1.3")>>,
               <<"body", Member(wire[1], "body")>> })
        /\ Member(wire[1], "body").k = "array"
        /\ Len(Member(wire[1], "body").a) = 1
        /\ SameMembers(Member(wire[1], "body").a[1],
             { <<"type", JStr("TextBlock")>>,
               <<"text", JStr("Hello, Adaptive Card!")>>,
               <<"size", JStr("large")>>,
               <<"weight", JStr("bolder")>>,
               <<"wrap", JBool(TRUE)>>,
               <<"isSubtle", JBool(FALSE)>> })
HelloEncoded ==
    /\ pc = "encoded" /\ typ = "AdaptiveCard" /\ value = Some(HelloCard)
    /\ HasKey(wire[1], "body")

(* The value v of type t was written as j: at every object of j, the key of
   an optional field is there exactly when the field is set. *)
RECURSIVE OmitsUnset(_, _, _)
OmitsUnset(t, v, j) ==
    CASE IsVec(t) ->
           /\ j.k = "array" /\ Len(j.a) = Len(v)
           /\ \A i \in 1..Len(v) : OmitsUnset(ElemTy(t), v[i], j.a[i])
      [] IsBox(t) -> OmitsUnset(ElemTy(t), v, j)
      [] t \in TaggedEnumNames ->
           OmitsUnset(VariantNamed(TypeDef(t), VariantOf(v)).ty, Payload(v), j)
      [] t = "Inline" ->
           VariantOf(v) = "TextRun" => OmitsUnset("TextRun", Payload(v), j)
      [] t \in StructNames ->
           /\ j.k = "object"
           /\ \A i \in 1..Len(TypeDef(t).fields) :
                LET f == TypeDef(t).fields[i]
                    key == FieldKey(TypeDef(t), f)
                IN  IF f.opt
                    THEN /\ IsNone(v[f.name]) <=> ~HasKey(j, key)
                         /\ ~IsNone(v[f.name]) =>
                              OmitsUnset(f.ty, v[f.name][1], Member(j, key))
                    ELSE /\ HasKey(j, key)
                         /\ OmitsUnset(f.ty, v[f.name], Member(j, key))
      [] OTHER -> TRUE

(* The value v of type t was read from j: at every object of j, an optional
   field whose key is not there is unset. *)
RECURSIVE AbsentIsUnset(_, _, _)
AbsentIsUnset(t, v, j) ==
    CASE IsVec(t) ->
           \A i \in 1..Len(v) : AbsentIsUnset(ElemTy(t), v[i], j.a[i])
      [] IsBox(t) -> AbsentIsUnset(ElemTy(t), v, j)
      [] t \in TaggedEnumNames ->
           AbsentIsUnset(VariantNamed(TypeDef(t), VariantOf(v)).ty, Payload(v), j)
      [] t = "Inline" ->
           VariantOf(v) = "TextRun" => AbsentIsUnset("TextRun", Payload(v), j)
      [] t \in StructNames /\ j.k = "object" ->
           \A i \in 1..Len(TypeDef(t).fields) :
                LET f == TypeDef(t).fields[i]
                    key == FieldKey(TypeDef(t), f)
                IN  IF f.opt
                    THEN /\ ~HasKey(j, key) => IsNone(v[f.name])
                         /\ ~IsNone(v[f.name]) =>
                              AbsentIsUnset(f.ty, v[f.name][1], Member(j, key))
                    ELSE AbsentIsUnset(f.ty, v[f.name], Member(j, key))
      [] OTHER -> TRUE

(* C3: in an encoded document, node or action, the key of an optional field
   is absent when the field is unset and present when it is set; a decoded
   object without the key has the field unset. *)
Omission ==
    /\ (pc \in {"encoded", "decoded"} /\ value # None) =>
           OmitsUnset(typ, value[1], wire[1])
    /\ (pc = "decoded" /\ result[1].ok) =>
           AbsentIsUnset(typ, result[1].val, wire[1])
OmissionSeen ==
    /\ pc = "decoded" /\ typ = "CardElement" /\ value # None
    /\ VariantOf(value[1]) = "TextBlock"
    /\ value[1]["TextBlock"]["wrap"] # None
    /\ value[1]["TextBlock"]["color"] = None
    /\ HasKey(wire[1], "wrap") /\ ~HasKey(wire[1], "color")
    /\ result[1].ok /\ result[1].val["TextBlock"]["color"] = None

RECURSIVE HasNullMember(_)
HasNullMember(j) ==
    CASE j.k = "object" ->
           \E i \in 1..Len(j.o) : j.o[i][2].k = "null" \/ HasNullMember(j.o[i][2])
      [] j.k = "array" -> \E i \in 1..Len(j.a) : HasNullMember(j.a[i])
      [] OTHER -> FALSE

(* C4: no key of an encoded document, node or action carries null, whether
   the optional fields of the value are set or not. *)
NoExplicitNull ==
    (pc = "encoded" /\ typ # "ColumnWidth") => ~HasNullMember(wire[1])

(* C5: the encoding of a node or an action has the key type exactly once,
   holding the tag of the variant, in the same object as the keys of the
   variant's own fields. *)
TypeExactlyOnce ==
    (pc = "encoded" /\ typ \in TaggedEnumNames) =>
        LET var == VariantNamed(TypeDef(typ), VariantOf(value[1]))
            def == TypeDef(var.ty)
        IN  /\ CountKey(wire[1], "type") = 1
            /\ Member(wire[1], "type") = JStr(ListedTagOf(typ)[var.name])
            /\ \A i \in 1..Len(def.fields) :
                  ~def.fields[i].opt => HasKey(wire[1], FieldKey(def, def.fields[i]))

(* C6: the thirteen node tags and the four action tags are those of the
   tables, no two variants of a family share a tag, encoding a variant
   writes its tag, and a tag that decodes gives the variant that encodes
   with that same tag. *)
SameTagTable ==
    /\ \A fam \in TaggedEnumNames :
          /\ {TypeDef(fam).variants[i].name : i \in 1..Len(TypeDef(fam).variants)}
                = DOMAIN ListedTagOf(fam)
          /\ Cardinality(ListedTags(fam)) = Len(TypeDef(fam).variants)
          /\ \A i, k \in 1..Len(TypeDef(fam).variants) :
                i # k => VariantToken(TypeDef(fam), TypeDef(fam).variants[i])
                          # VariantToken(TypeDef(fam), TypeDef(fam).variants[k])
    /\ Cardinality(ListedTags("CardElement")) = 13
    /\ Cardinality(ListedTags("Action")) = 4
    /\ (pc = "encoded" /\ typ \in TaggedEnumNames) =>
          \E i \in 1..Len(wire[1].o) :
              wire[1].o[i] = <<"type", JStr(ListedTagOf(typ)[VariantOf(value[1])])>>
    /\ (pc = "decoded" /\ typ \in TaggedEnumNames /\ result[1].ok) =>
          /\ Member(wire[1], "type") = JStr(ListedTagOf(typ)[VariantOf(result[1].val)])
          /\ Member(to_string(typ, result[1].val), "type") = Member(wire[1], "type")
          /\ value # None => VariantOf(result[1].val) = VariantOf(value[1])
SameTagSeen ==
    /\ pc = "decoded" /\ typ = "CardElement" /\ value = None
    /\ wire = Some(TagLast("Input.ChoiceSet"))
    /\ result[1].ok /\ VariantOf(result[1].val) = "InputChoiceSet"

(* C7: a node or an action whose type is no tag of its family, a known tag
   in another letter case included, is not decoded: the error is an unknown
   variant and names the tag. *)
UnknownTagRejected ==
    (pc = "decoded" /\ value = None) =>
        \A t \in StrangeTags : \A obj \in {TagFirst(t), TagLast(t)} :
            ( \/ typ \in TaggedEnumNames /\ wire[1] = obj
              \/ wire[1] \in NodePlaces(obj) \cup ActionPlaces(obj) )
            => result[1] = Err("unknown_variant", t)
UnknownTagSeen ==
    /\ pc = "decoded" /\ typ = "AdaptiveCard"
    /\ wire = Some(InActions(TagFirst("action.openurl")))
    /\ ~result[1].ok

(* C8: a node in body, in the items of a Container or of a Column, or an
   action in actions or selectAction, that has no type key is not decoded:
   the error is the missing type, even though the required fields of some
   variant are all there. *)
MissingDiscriminant ==
    ( /\ pc = "decoded" /\ value = None
      /\ \/ typ \in TaggedEnumNames /\ wire[1] = NoTag
         \/ wire[1] \in NodePlaces(NoTag) \cup ActionPlaces(NoTag) )
    => result[1] = Err("missing_field", "type")
MissingDiscriminantSeen ==
    /\ pc = "decoded" /\ typ = "AdaptiveCard"
    /\ wire = Some(InSelectAction(NoTag))
    /\ HasKey(NoTag, "url") /\ HasKey(NoTag, "text")
    /\ ~result[1].ok

(* C9: no tag belongs to both families; an action tag where a node is read,
   and a node tag where an action is read, is rejected. *)
VocabulariesIndependent ==
    /\ NodeTags \cap ActionTags = {}
    /\ (pc = "decoded" /\ value = None) =>
        /\ \A t \in ListedTags("Action") : \A obj \in {TagFirst(t), TagLast(t)} :
              ( \/ typ = "CardElement" /\ wire[1] = obj
                \/ wire[1] \in NodePlaces(obj) )
              => result[1] = Err("unknown_variant", t)
        /\ \A t \in ListedTags("CardElement") : \A obj \in {TagFirst(t), TagLast(t)} :
              ( \/ typ = "Action" /\ wire[1] = obj
                \/ wire[1] \in ActionPlaces(obj) )
              => result[1] = Err("unknown_variant", t)
NodeTagAmongActions ==
    /\ pc = "decoded" /\ typ = "AdaptiveCard"
    /\ wire = Some(InActions(TagFirst("TextBlock")))
    /\ ~result[1].ok

(* C10: a width encodes as the string auto, the string stretch, the decimal
   digits of n followed by px for pixels(n), and the bare number n for
   weight(n). *)
WidthEncode ==
    (pc = "encoded" /\ typ = "ColumnWidth") =>
        /\ value[1] = auto => wire[1] = JStr("auto")
        /\ value[1] = stretch => wire[1] = JStr("stretch")
        /\ \A n \in WidthNumbers :
              /\ value[1] = pixels(n) =>
                    /\ wire[1].k = "string"
                    /\ Len(wire[1].s) > 2
                    /\ SubSeq(wire[1].s, Len(wire[1].s) - 1, Len(wire[1].s)) = "px"
                    /\ LET d == SubSeq(wire[1].s, 1, Len(wire[1].s) - 2)
                       IN  /\ IsDigits(d)
                           /\ (Len(d) > 1 => CharAt(d, 1) # "0")
                           /\ ParseU32(d, 1, U32(0)) = n
              /\ value[1] = weight(n) =>
                    /\ wire[1].k = "number"
                    /\ IsDigits(wire[1].text)
                    /\ (Len(wire[1].text) > 1 => CharAt(wire[1].text, 1) # "0")
                    /\ ParseU32(wire[1].text, 1, U32(0)) = n
PixelsEncoded ==
    /\ pc = "encoded" /\ typ = "ColumnWidth"
    /\ value = Some(pixels(U32(65536)))
    /\ wire = Some(JStr("65536px"))

(* C11: the number 200 decodes to the relative weight 200, "200px" to the
   pixel variant, "auto" to Auto and "stretch" to Stretch: four results of
   four different variants. *)
WidthDecodeVariants ==
    ( /\ pc = "decoded" /\ typ = "ColumnWidth" /\ value = None
      /\ wire[1] \in {JNum("200"), JStr("200px"), JStr("auto"), JStr("stretch")} )
    => /\ result[1].ok
       /\ wire[1] = JNum("200") => result[1].val = weight(U32(200))
       /\ wire[1] = JStr("200px") => VariantOf(result[1].val.kind) = "Pixel"
       /\ wire[1] = JStr("auto") => VariantOf(result[1].val.kind) = "Auto"
       /\ wire[1] = JStr("stretch") => VariantOf(result[1].val.kind) = "Stretch"

(* A number, "auto", "stretch", or decimal digits followed by px. *)
WidthShaped(j) ==
    \/ j.k = "number"
    \/ /\ j.k = "string"
       /\ \/ j.s \in {"auto", "stretch"}
          \/ /\ Len(j.s) > 2
             /\ SubSeq(j.s, Len(j.s) - 1, Len(j.s)) = "px"
             /\ IsDigits(SubSeq(j.s, 1, Len(j.s) - 2))

(* C12: a width that is no number, not "auto", not "stretch" and not digits
   followed by px is not decoded, alone or as the width of a Column. *)
WidthRejected ==
    (pc = "decoded" /\ value = None) =>
        \A j \in WidthTexts :
            ( /\ ~WidthShaped(j)
              /\ \/ typ = "ColumnWidth" /\ wire[1] = j
                 \/ typ = "CardElement" /\ wire[1] = InColumnWidth(j) )
            => ~result[1].ok

(* C13: in the encoding of three nested documents, the card of each ShowCard
   object is the encoding of that level's document on its own, with its
   type, $schema, version and body, and decoding gives the three levels
   back. *)
NestedEncoding ==
    /\ ( /\ pc \in {"encoded", "decoded"} /\ typ = "AdaptiveCard"
         /\ value = Some(ThreeLevelCard) ) =>
          LET a1 == Member(wire[1], "actions").a[1]
              c2 == Member(a1, "card")
              a2 == Member(Member(c2, "body").a[1], "actions").a[1]
              c3 == Member(a2, "card")
          IN  /\ Member(a1, "type") = JStr("Action.ShowCard")
              /\ Member(a2, "type") = JStr("Action.ShowCard")
              /\ c2 = to_string("AdaptiveCard", NestedCard(2))
              /\ c3 = to_string("AdaptiveCard", NestedCard(1))
              /\ \A c \in {wire[1], c2, c3} :
                    /\ HasKey(c, "type") /\ HasKey(c, "$schema")
                    /\ HasKey(c, "version") /\ HasKey(c, "body")
                    /\ Member(c, "type") = JStr("AdaptiveCard")
                    /\ Member(c, "$schema") = JStr(SchemaUrl)
                    /\ Member(c, "version") = JStr("1.2")
                    /\ Member(c, "body").k = "array"
              /\ Member(Member(c3, "body").a[1], "text") = JStr("leaf")
              /\ pc = "decoded" => result[1] = Ok(ThreeLevelCard)
    /\ ( /\ pc \in {"encoded", "decoded"} /\ typ = "Action" /\ value # None
         /\ VariantOf(value[1]) = "ShowCard" ) =>
          /\ Member(wire[1], "card")
                = to_string("AdaptiveCard", value[1]["ShowCard"]["card"])
          /\ Member(Member(wire[1], "card"), "type") = JStr("AdaptiveCard")
          /\ pc = "decoded" => result[1] = Ok(value[1])
NestedDecoded ==
    /\ pc = "decoded" /\ typ = "AdaptiveCard" /\ value = Some(ThreeLevelCard)
    /\ result[1].ok
    /\ result[1].val["actions"][1][1]["ShowCard"]["card"] = NestedCard(2)

(* The documents of a value of type t that is a card or a ShowCard action. *)
DocumentsOf(t, v) ==
    IF t = "AdaptiveCard" THEN {v}
    ELSE IF t = "Action" /\ VariantOf(v) = "ShowCard" THEN {v["ShowCard"]["card"]}
    ELSE {}

(* C14: every document, built or decoded, at the root or as the card of a
   ShowCard action, has the schema marker of Default, and every encoded
   document carries $schema with that value. *)
SchemaMarker ==
    /\ (pc \in {"built", "encoded"}) =>
          \A d \in DocumentsOf(typ, value[1]) : d["schema"] = SchemaUrl
    /\ (pc = "decoded" /\ result[1].ok) =>
          \A d \in DocumentsOf(typ, result[1].val) : d["schema"] = SchemaUrl
    /\ (pc = "encoded" /\ typ = "AdaptiveCard") =>
          Member(wire[1], "$schema") = JStr(SchemaUrl)

(* The array arr is the sequence seq of ty, element by element. *)
EncodesInOrder(ty, seq, arr) ==
    /\ arr.k = "array"
    /\ Len(arr.a) = Len(seq)
    /\ \A i \in 1..Len(seq) : arr.a[i] = to_string(ty, seq[i])
DecodesInOrder(ty, seq, arr) ==
    /\ arr.k = "array"
    /\ Len(seq) = Len(arr.a)
    /\ \A i \in 1..Len(seq) : from_str(ty, arr.a[i]) = Ok(seq[i])

(* InOrder holds of every sequence the value v of type t holds itself, j
   being the text of v. *)
SequencesInOrder(InOrder(_, _, _), t, v, j) ==
    IF t = "AdaptiveCard"
    THEN /\ InOrder("CardElement", v["body"], Member(j, "body"))
         /\ v["actions"] # None =>
                InOrder("Action", v["actions"][1], Member(j, "actions"))
    ELSE IF t # "CardElement" THEN TRUE
    ELSE LET n == VariantOf(v)
             x == Payload(v)
         IN  CASE n = "Container" ->
                    InOrder("CardElement", x["items"], Member(j, "items"))
               [] n = "ColumnSet" ->
                    /\ InOrder("Column", x["columns"], Member(j, "columns"))
                    /\ \A i \in 1..Len(x["columns"]) :
                          InOrder("CardElement", x["columns"][i]["items"],
                                  Member(Member(j, "columns").a[i], "items"))
               [] n = "ActionSet" ->
                    InOrder("Action", x["actions"], Member(j, "actions"))
               [] n = "FactSet" ->
                    InOrder("Fact", x["facts"], Member(j, "facts"))
               [] n = "RichTextBlock" ->
                    InOrder("Inline", x["inlines"], Member(j, "inlines"))
               [] OTHER -> TRUE

TwoBlocksCard == With(DefaultCard, "body", <<TextBlockOf("a"), TextBlockOf("b")>>)

(* C15: the array written for a sequence (body, actions, items, columns,
   facts, inlines) has the length of the sequence and its i-th element is
   the encoding of the i-th element; a successful decode gives the sequence
   whose i-th element is what the i-th element of the array decodes to. *)
OrderPreserved ==
    /\ (pc \in {"encoded", "decoded"} /\ value # None) =>
          SequencesInOrder(EncodesInOrder, typ, value[1], wire[1])
    /\ (pc = "decoded" /\ result[1].ok) =>
          SequencesInOrder(DecodesInOrder, typ, result[1].val, wire[1])
    /\ ( /\ pc \in {"encoded", "decoded"} /\ typ = "AdaptiveCard"
         /\ value = Some(TwoBlocksCard) ) =>
          /\ Member(Member(wire[1], "body").a[1], "text") = JStr("a")
          /\ Member(Member(wire[1], "body").a[2], "text") = JStr("b")
    /\ (pc = "decoded" /\ wire = Some(TwoColumnsText)) =>
          /\ result[1].ok
          /\ LET cols == result[1].val["ColumnSet"]["columns"]
              IN  /\ Len(cols) = 2
                  /\ cols[1]["width"] = auto
                  /\ cols[2]["width"] = weight(U32(2))
                  /\ cols[1]["items"] = <<TextBlockOf("a"), TextBlockOf("b")>>
                  /\ cols[2]["items"] = <<TextBlockOf("b"), TextBlockOf("a")>>
OrderSeen ==
    /\ pc = "decoded" /\ wire = Some(TwoColumnsText) /\ result[1].ok
    /\ Len(result[1].val["ColumnSet"]["columns"][2]["items"]) = 2

(* The listed enums but AssociatedInputs: each name with its first letter in
   lower case. *)
ListedLiterals ==
    [ TextSize |->
        [Small |-> "small", Default |-> "default", Medium |-> "medium",
         Large |-> "large", ExtraLarge |-> "extraLarge"],
      TextWeight |->
        [Lighter |-> "lighter", Default |-> "default", Bolder |-> "bolder"],
      Color |->
        [Default |-> "default", Dark |-> "dark", Light |-> "light",
         Accent |-> "accent", Good |-> "good", Warning |-> "warning",
         Attention |-> "attention"],
      Spacing |->
        [None |-> "none", Small |-> "small", Default |-> "default",
         Medium |-> "medium", Large |-> "large", ExtraLarge |-> "extraLarge",
         Padding |-> "padding"],
      ContainerStyle |->
        [Default |-> "default", Emphasis |-> "emphasis", Good |-> "good",
         Attention |-> "attention", Warning |-> "warning",
         Accent |-> "accent"],
      ActionStyle |->
        [Default |-> "default", Positive |-> "positive",
         Destructive |-> "destructive"],
      ActionMode |->
        [Primary |-> "primary", Secondary |-> "secondary"],
      TextInputStyle |->
        [Text |-> "text", Tel |-> "tel", Url |-> "url", Email |-> "email",
         Password |-> "password"],
      ChoiceInputStyle |->
        [Compact |-> "compact", Expanded |-> "expanded",
         Filtered |-> "filtered"],
      Height |->
        [Auto |-> "auto", Stretch |-> "stretch"],
      FontType |->
        [Default |-> "default", Monospace |-> "monospace"],
      HorizontalAlignment |->
        [Left |-> "left", Center |-> "center", Right |-> "right"],
      VerticalContentAlignment |->
        [Top |-> "top", Center |-> "center", Bottom |-> "bottom"],
      ImageSize |->
        [Auto |-> "auto", Stretch |-> "stretch", Small |-> "small",
         Medium |-> "medium", Large |-> "large"],
      MsTeamsWidth |->
        [Full |-> "full"] ]

(* The same table with AssociatedInputs as the statement has it, and as the
   names stand in the source. *)
ClaimedLiterals ==
    [AssociatedInputs |-> [Auto |-> "auto", None |-> "none"]] @@ ListedLiterals
NamedLiterals ==
    [AssociatedInputs |-> [Auto |-> "Auto", None |-> "None"]] @@ ListedLiterals

(* Each value of an enum of the table is written as its token of the table,
   and a string is read as a value of the enum exactly when it is a token of
   the enum's, as the value of that token. *)
LiteralsFollow(table) ==
    /\ (pc \in {"encoded", "decoded"} /\ value # None /\ typ \in DOMAIN table) =>
          /\ value[1] \in DOMAIN table[typ]
          /\ wire[1] = JStr(table[typ][value[1]])
    /\ (pc = "decoded" /\ typ \in DOMAIN table /\ wire[1].k = "string") =>
          /\ result[1].ok <=> \E n \in DOMAIN table[typ] : table[typ][n] = wire[1].s
          /\ result[1].ok => table[typ][result[1].val] = wire[1].s
    /\ ( /\ pc = "encoded" /\ typ = "Action" /\ VariantOf(value[1]) = "Submit"
         /\ value[1]["Submit"]["associated_inputs"] # None ) =>
          Member(wire[1], "associatedInputs")
             = JStr(table["AssociatedInputs"][value[1]["Submit"]["associated_inputs"][1]])

(* C16 as stated: every value of every listed enum, AssociatedInputs among
   them, is written as its name with the first letter in lower case, and
   that token alone is read as the value. *)
LowerCamelLiterals == LiteralsFollow(ClaimedLiterals)

(* C16, amended: the same for every listed enum but AssociatedInputs, whose
   values are written as their names unchanged, "Auto" and "None", and
   those tokens alone are read as the values. *)
LiteralTokens == LiteralsFollow(NamedLiterals)
LiteralTokenSeen ==
    /\ pc = "decoded" /\ typ = "AssociatedInputs" /\ value = Some("None")
    /\ wire = Some(JStr("None")) /\ result = Some(Ok("None"))

(* The card v has no ShowCard action as its select_action. *)
SelectsNoShowCard(v) ==
    \/ v["select_action"] = None
    \/ VariantOf(v["select_action"][1]) # "ShowCard"

(* C17: no card that was built or decoded has a ShowCard action as its
   selectAction; the text whose selectAction has the tag Action.ShowCard does
   not decode to a card that holds it. *)
NoShowCardSelect ==
    /\ (pc \in {"built", "encoded"} /\ typ = "AdaptiveCard") =>
          SelectsNoShowCard(value[1])
    /\ (pc = "decoded" /\ typ = "AdaptiveCard" /\ result[1].ok) =>
          SelectsNoShowCard(result[1].val)

(* The text j, read as a t, fails, and the decode in the state failed with
   the same error. *)
FailsAs(t, j) ==
    LET r == from_str(t, j) IN ~r.ok => result[1] = r

(* A decode ends as a value or as an error, never both. *)
ValueOrError ==
    pc = "decoded" =>
       \/ result[1].ok /\ DOMAIN result[1] = {"ok", "val"}
       \/ ~result[1].ok /\ DOMAIN result[1] = {"ok", "err"}

(* An object that cannot be read makes the text it is part of fail, with the
   error of the object, wherever it stands; of two such objects the first
   decides. *)
FailsAtAnyDepth ==
    pc = "decoded" =>
       /\ \A obj \in NodeObjects :
             /\ wire[1] \in NodePlaces(obj) => FailsAs("CardElement", obj)
             /\ wire[1] \in ActionPlaces(obj) => FailsAs("Action", obj)
       /\ \A c \in SchemaTexts :
             wire[1] = InShowCard(c) => FailsAs("AdaptiveCard", c)
       /\ \A j \in DeepObjects :
             /\ wire[1] = InDeepCard(j) => FailsAs("CardElement", j)
             /\ \A j2 \in DeepObjects :
                   wire[1] = InBodyOfTwo(j, j2) =>
                      /\ FailsAs("CardElement", j)
                      /\ from_str("CardElement", j).ok => FailsAs("CardElement", j2)

(* C18 as stated: decode gives a whole value or an error, an object that
   cannot be read at any depth makes the whole decode fail, and the error
   tells the place and the raw value: the same object in two places gives
   two errors, and two values refused in the same place give two errors. *)
ErrorLocates ==
    /\ ValueOrError
    /\ FailsAtAnyDepth
    /\ (pc = "decoded" /\ typ = "AdaptiveCard" /\ ~result[1].ok) =>
          \A obj \in ActionObjects :
             wire[1] = InActions(obj) =>
                result[1] # from_str("AdaptiveCard", InSelectAction(obj))
    /\ (pc = "decoded" /\ typ = "ColumnWidth" /\ ~result[1].ok) =>
          \A j \in WidthTexts :
             (j.k # wire[1].k /\ j.k # "string") =>
                result[1] # from_str("ColumnWidth", j)

(* C18, amended: decode gives a whole value or an error, and an object that
   cannot be read at any depth (in a Container, a Column, the card of a
   ShowCard action) makes the whole decode fail with the error of the first
   such object, which is serde's: what went wrong, with no path. *)
AllOrNothing == ValueOrError /\ FailsAtAnyDepth
DeepFailureSeen ==
    /\ pc = "decoded" /\ wire = Some(InDeepCard(TagFirst("Bogus")))
    /\ result = Some(Err("unknown_variant", "Bogus"))

(* The text of a number: digits, or digits and ".0". *)
IsNumberText(s) ==
    \/ IsDigits(s)
    \/ /\ Len(s) > 2
       /\ SubSeq(s, Len(s) - 1, Len(s)) = ".0"
       /\ IsDigits(SubSeq(s, 1, Len(s) - 2))

(* j is a JSON value: null, a boolean, a number, a string, an array of JSON
   values, or an object whose members are a key and a JSON value. *)
RECURSIVE IsJson(_)
IsJson(j) ==
    CASE j.k = "null" -> DOMAIN j = {"k"}
      [] j.k = "bool" -> DOMAIN j = {"k", "b"} /\ j.b \in BOOLEAN
      [] j.k = "number" -> DOMAIN j = {"k", "text"} /\ IsNumberText(j.text)
      [] j.k = "string" -> DOMAIN j = {"k", "s"}
      [] j.k = "array" ->
           DOMAIN j = {"k", "a"} /\ \A i \in 1..Len(j.a) : IsJson(j.a[i])
      [] j.k = "object" ->
           /\ DOMAIN j = {"k", "o"}
           /\ \A i \in 1..Len(j.o) : Len(j.o[i]) = 2 /\ IsJson(j.o[i][2])
      [] OTHER -> FALSE

(* C19: to_string of a value built through the public types and the four
   ColumnWidth constructors gives a JSON text, never an error: an object
   for a card, a node or an action, a string or a number for a width. *)
EncodeTotal ==
    (pc = "encoded" /\ typ \in {"AdaptiveCard", "CardElement", "Action", "ColumnWidth"}) =>
       /\ IsJson(wire[1])
       /\ typ # "ColumnWidth" => wire[1].k = "object"
       /\ typ = "ColumnWidth" =>
             /\ value[1] \in {auto, stretch} \cup { pixels(n) : n \in WidthNumbers }
                                             \cup { weight(n) : n \in WidthNumbers }
             /\ wire[1].k \in {"string", "number"}
NotANumberEncoded ==
    /\ pc = "encoded" /\ typ = "CardElement"
    /\ VariantOf(value[1]) = "InputNumber"
    /\ value[1]["InputNumber"]["min"] = Some(NaN)
    /\ Member(wire[1], "min") = JNull

(* The tokens of Version and of TextBlockStyle, with those of the listed
   enums. *)
VersionTokens ==
    [V1_0 |-> "1.0", V1_1 |-> "1.1", V1_2 |-> "1.2", V1_3 |-> "1.3",
     V1_4 |-> "1.4", V1_5 |-> "1.5", V1_6 |-> "1.6"]
AllLiterals ==
    [Version |-> VersionTokens,
     TextBlockStyle |-> [Default |-> "default", Heading |-> "heading"]]
    @@ NamedLiterals

(* C20: a card is read only when its version is one of the seven strings
   "1.0" to "1.6", as the variant of that token, which is written back as
   the same token; a value read as an enum is refused when it is a string
   that is no token of the enum, a token in another letter case among them,
   and when it is no string. *)
ClosedLiterals ==
    /\ (pc = "decoded" /\ typ = "AdaptiveCard") =>
          \A j \in {JStr(s) : s \in LiteralStrings("Version")} \cup NonStrings("Version") :
             wire[1] = WithVersion(j) =>
                /\ result[1].ok <=>
                      /\ j.k = "string"
                      /\ \E n \in DOMAIN VersionTokens : VersionTokens[n] = j.s
                /\ result[1].ok =>
                      /\ VersionTokens[result[1].val["version"]] = j.s
                      /\ to_string("Version", result[1].val["version"]) = j
    /\ (pc = "decoded" /\ typ \in DOMAIN AllLiterals /\ value = None /\ result[1].ok) =>
             /\ wire[1].k = "string"
             /\ \E n \in DOMAIN AllLiterals[typ] : AllLiterals[typ][n] = wire[1].s

(* The text j has a member whose value is null. *)
HasNull(j) == j.k = "object" /\ \E i \in 1..Len(j.o) : j.o[i][2] = JNull

(* C21: for every optional field of a card, of a node and of an action,
   the object with the field's key set to null is read as the object
   without the key is: the decode succeeds and the field is unset. *)
NullIsUnset ==
    (pc = "decoded" /\ value = None /\ HasNull(wire[1])) =>
       \A p \in NullPlaces :
          (typ = p.t /\ wire[1] = SetMember(p.base, p.f.key, JNull)) =>
             /\ result[1] = from_str(p.t, p.base)
             /\ result[1].ok
             /\ IF p.t = "AdaptiveCard"
                THEN result[1].val[p.f.name] = None
                ELSE Payload(result[1].val)[p.f.name] = None
NullDecoded ==
    /\ pc = "decoded" /\ typ = "Action" /\ value = None
    /\ wire = Some(JObj(<< <<"type", JStr("Action.Submit")>>, <<"data", JNull>> >>))
    /\ result[1].ok
    /\ result[1].val["Submit"]["data"] = None

(* What call i holds is what the call alone gives: nothing before the call
   has ended, the encoding of its value once encoded, the decoding of its
   text once decoded. *)
CallAlone(i) ==
    LET c == calls[i]
    IN  /\ c.pc \in {"idle"} => c.value = None /\ c.wire = None /\ c.result = None
        /\ c.pc \in {"built", "encoding"} =>
              c.value # None /\ c.wire = None /\ c.result = None
        /\ c.pc = "received" => c.value = None /\ c.wire # None /\ c.result = None
        /\ c.pc \in {"encoded", "decoding", "decoded"} /\ c.value # None =>
              c.wire = Some(to_string(c.typ, c.value[1]))
        /\ c.pc \in {"encoded", "decoding"} => c.result = None
        /\ c.pc = "decoded" => c.result = Some(from_str(c.typ, c.wire[1]))

(* A step leaves the value of a call that is encoding it, and the text of a
   call that is decoding it, as they were. *)
InputsKept ==
    \A i \in CallIds :
       /\ calls[i].pc \in {"built", "encoding"} => calls'[i].value = calls[i].value
       /\ calls[i].pc \in {"received", "encoded", "decoding"} =>
             calls'[i].wire = calls[i].wire

(* C22: however the encode and decode calls of several callers interleave,
   each call gives what it gives alone, and no call changes the value it
   encodes. *)
CallsIndependent == [](\A i \in CallIds : CallAlone(i)) /\ [][InputsKept]_vars
BothCallsDone ==
    /\ calls[1].pc = "decoded" /\ calls[1].typ = "AdaptiveCard"
    /\ calls[1].value = Some(HelloCard) /\ calls[1].result = Some(Ok(HelloCard))
    /\ calls[2].pc = "decoded" /\ calls[2].typ = "ColumnWidth"
    /\ calls[2].value = None /\ calls[2].result = Some(Ok(auto))

(* C23: a text that is read well is refused, with the missing field named,
   once the member of a required field is taken out of it: $schema, version
   or body of a card, text of a TextBlock, items of a Container, columns of
   a ColumnSet, width or items of a Column, url of an Image or OpenUrl,
   facts, inlines, id of an input, title of Input.Toggle, card of ShowCard,
   targetElements of ToggleVisibility.  No sequence is taken as empty. *)
RequiredFieldMissing ==
    (pc = "decoded" /\ value = None /\ wire[1].k = "object") =>
       /\ \A p \in RequiredPlaces :
             typ = p.t =>
                /\ wire[1] = p.base => result[1].ok
                /\ wire[1] = WithoutMember(p.base, p.key) =>
                      result[1] = Err("missing_field", p.key)
       /\ \A k \in ColumnKeys :
             (typ = "CardElement" /\ wire[1] = OneColumn(WithoutMember(SampleColumn, k))) =>
                result[1] = Err("missing_field", k)
BodyMissing ==
    /\ pc = "decoded" /\ typ = "AdaptiveCard" /\ value = None
    /\ wire = Some(WithoutMember(CardText, "body"))
    /\ result = Some(Err("missing_field", "body"))

(* The keys of the object j, as they stand. *)
KeysOf(j) == [i \in 1..Len(j.o) |-> j.o[i][1]]

(* The keys of the fields of the struct def that the value v has set, in the
   order the fields are declared. *)
DeclaredKeys(def, v) ==
    LET kept == SelectSeq(def.fields, LAMBDA f : ~(f.opt /\ IsNone(v[f.name])))
    IN  [i \in 1..Len(kept) |-> FieldKey(def, kept[i])]

(* The value v of type t was written as j: every object of j that has a type
   has it once, first, and then the keys of the fields that are set, as
   declared; tagged says that v is the value of a variant of a tagged
   enum. *)
RECURSIVE KeysInOrder(_, _, _, _)
KeysInOrder(t, v, j, tagged) ==
    CASE IsVec(t) ->
           /\ j.k = "array" /\ Len(j.a) = Len(v)
           /\ \A i \in 1..Len(v) : KeysInOrder(ElemTy(t), v[i], j.a[i], FALSE)
      [] IsBox(t) -> KeysInOrder(ElemTy(t), v, j, FALSE)
      [] t \in TaggedEnumNames ->
           KeysInOrder(VariantNamed(TypeDef(t), VariantOf(v)).ty, Payload(v), j, TRUE)
      [] t = "Inline" ->
           VariantOf(v) = "TextRun" => KeysInOrder("TextRun", Payload(v), j, FALSE)
      [] t \in StructNames ->
           /\ j.k = "object"
           /\ KeysOf(j) = (IF tagged \/ TypeDef(t).tag # None THEN <<"type">> ELSE <<>>)
                              \o DeclaredKeys(TypeDef(t), v)
           /\ \A i \in 1..Len(TypeDef(t).fields) :
                LET f == TypeDef(t).fields[i]
                IN  IF f.opt
                    THEN ~IsNone(v[f.name]) =>
                            KeysInOrder(f.ty, v[f.name][1],
                                        Member(j, FieldKey(TypeDef(t), f)), FALSE)
                    ELSE KeysInOrder(f.ty, v[f.name],
                                     Member(j, FieldKey(TypeDef(t), f)), FALSE)
      [] OTHER -> TRUE

(* C24: every object written has type first and then the keys of the fields
   that are set, in the order of their declaration: for the card of the
   documentation type, $schema, version, body, and for its TextBlock type,
   text, size, weight, wrap, isSubtle. *)
EmissionOrder ==
    /\ (pc = "encoded" /\ typ = "AdaptiveCard" /\ value = Some(HelloCard)) =>
          /\ KeysOf(wire[1]) = <<"type", "$schema", "version", "body">>
          /\ KeysOf(Member(wire[1], "body").a[1])
                = <<"type", "text", "size", "weight", "wrap", "isSubtle">>
    /\ (pc = "encoded" /\ typ \in {"AdaptiveCard", "CardElement", "Action"}) =>
          KeysInOrder(typ, value[1], wire[1], FALSE)

(* Every TextRun among the inlines of the RichTextBlock v has the type
   "TextRun". *)
RunsTyped(v) ==
    VariantOf(v) = "RichTextBlock" =>
       \A i \in 1..Len(v["RichTextBlock"]["inlines"]) :
          LET inl == v["RichTextBlock"]["inlines"][i]
          IN  VariantOf(inl) = "TextRun" => inl["TextRun"]["type_field"] = "TextRun"

(* C25: every TextRun a RichTextBlock holds, built or decoded, has the type
   "TextRun"; an inline object of another type is not read as a TextRun. *)
TextRunTyped ==
    /\ (pc \in {"built", "encoded"} /\ typ = "CardElement") => RunsTyped(value[1])
    /\ (pc = "decoded" /\ typ = "CardElement" /\ result[1].ok) =>
          RunsTyped(result[1].val)

(* The width w is of the kind Auto, holding a string, or of the kind
   Relative. *)
AutoOrRelative(w) == VariantOf(w["kind"]) \in {"Auto", "Relative"}

(* The widths of the columns of the node v, if it is a ColumnSet, are so. *)
ColumnsAutoOrRelative(v) ==
    VariantOf(v) = "ColumnSet" =>
       \A i \in 1..Len(v["ColumnSet"]["columns"]) :
          AutoOrRelative(v["ColumnSet"]["columns"][i]["width"])

(* C26: a width that a constructor built or decode read is of the kind Auto,
   holding the string of the text, or of the kind Relative, holding the
   number: stretch() and pixels(n) build Auto with "stretch" and "<n>px",
   every string is read as Auto, and Stretch and Pixel never come up. *)
WidthKinds ==
    /\ (pc \in {"built", "encoded", "decoded"} /\ typ = "ColumnWidth" /\ value # None) =>
          /\ AutoOrRelative(value[1])
          /\ (VariantOf(value[1]["kind"]) = "Auto" /\ wire # None) =>
                wire[1] = JStr(value[1]["kind"]["Auto"])
          /\ value[1] \in {auto, stretch} \cup { pixels(n) : n \in WidthNumbers } =>
                VariantOf(value[1]["kind"]) = "Auto"
    /\ (pc = "decoded" /\ typ = "ColumnWidth" /\ result[1].ok) =>
          /\ AutoOrRelative(result[1].val)
          /\ wire[1].k = "string" =>
                result[1].val = [kind |-> Variant("Auto", wire[1].s)]
          /\ wire[1].k = "number" =>
                /\ VariantOf(result[1].val["kind"]) = "Relative"
                /\ FormatU32(result[1].val["kind"]["Relative"]) = wire[1].text
    /\ (pc \in {"built", "encoded"} /\ typ = "CardElement") =>
          ColumnsAutoOrRelative(value[1])
    /\ (pc = "decoded" /\ typ = "CardElement" /\ result[1].ok) =>
          ColumnsAutoOrRelative(result[1].val)
    /\ stretch = [kind |-> Variant("Auto", "stretch")]
    /\ pixels(U32(200)) = [kind |-> Variant("Auto", "200px")]
StretchDecoded ==
    /\ pc = "decoded" /\ typ = "ColumnWidth" /\ value = None
    /\ wire = Some(JStr("stretch"))
    /\ result = Some(Ok([kind |-> Variant("Auto", "stretch")]))

(* The integers of 0..2^32-1 among the texts, each with the two halves of
   the u32 it is. *)
InRange ==
    [t \in {"0", "7", "200", "65535", "65536", "4294967295"} |->
        CASE t = "0" -> [hi |-> 0, lo |-> 0]
          [] t = "7" -> [hi |-> 0, lo |-> 7]
          [] t = "200" -> [hi |-> 0, lo |-> 200]
          [] t = "65535" -> [hi |-> 0, lo |-> 65535]
          [] t = "65536" -> [hi |-> 1, lo |-> 0]
          [] t = "4294967295" -> [hi |-> 65535, lo |-> 65535]]

(* C27: a width given as an integer is read as the relative weight of that
   integer when the integer is one of 0..2^32-1, and is refused otherwise:
   below zero (or written with a minus sign) and from 2^32 on, with no
   wrapping and no clamping; a Column with a refused width is refused. *)
WidthInteger ==
    \A n \in IntegerTexts :
       /\ (pc = "decoded" /\ typ = "ColumnWidth" /\ wire = Some(JNum(n))) =>
             IF n \in DOMAIN InRange
             THEN result[1] = Ok([kind |-> Variant("Relative", InRange[n])])
             ELSE ~result[1].ok
       /\ (pc = "decoded" /\ typ = "CardElement" /\ wire = Some(InColumnWidth(JNum(n)))) =>
             IF n \in DOMAIN InRange
             THEN /\ result[1].ok
                  /\ result[1].val["ColumnSet"]["columns"][1]["width"]
                        = [kind |-> Variant("Relative", InRange[n])]
             ELSE ~result[1].ok
WidthTooLarge ==
    /\ pc = "decoded" /\ typ = "ColumnWidth" /\ wire = Some(JNum("4294967296"))
    /\ ~result[1].ok

(* What each base text decodes to. *)
TypeOutcome ==
    << Ok(DefaultCard), Ok(HelloCard), Err("missing_field", "body") >>

(* C28: the type member of a root object is not read: a root text decodes to
   the same outcome without the member, with "AdaptiveCard" and with any
   other string, as the card of a ShowCard action does too; and every encoded
   card, the card of a ShowCard action included, has "AdaptiveCard" as its
   type member. *)
RootMarkerUnchecked ==
    /\ \A i \in 1..Len(TypeBases) : \A f \in TypeForms(TypeBases[i]) :
          (pc = "decoded" /\ typ = "AdaptiveCard" /\ wire = Some(f)) =>
             result[1] = TypeOutcome[i]
    /\ \A f \in TypeForms(CardText) :
          (pc = "decoded" /\ typ = "Action" /\ wire = Some(InShowCard(f))) =>
             result[1] = Ok(Variant("ShowCard",
                               With(MinOf("ShowCardAction"), "card", DefaultCard)))
    /\ (pc = "encoded" /\ typ = "AdaptiveCard") =>
          /\ wire[1].o[1] = <<"type", JStr("AdaptiveCard")>>
          /\ CountKey(wire[1], "type") = 1
    /\ (pc = "encoded" /\ typ = "Action" /\ VariantOf(value[1]) = "ShowCard") =>
          Member(wire[1], "card").o[1] = <<"type", JStr("AdaptiveCard")>>
    /\ (pc = "encoded" /\ typ = "AdaptiveCard" /\ value = Some(ShowCardSelectCard)) =>
          Member(Member(wire[1], "selectAction"), "card").o[1]
             = <<"type", JStr("AdaptiveCard")>>
OtherMarkerDecoded ==
    /\ pc = "decoded" /\ typ = "AdaptiveCard"
    /\ wire = Some(SetMember(Serialize("AdaptiveCard", HelloCard), "type", JStr("Bogus")))
    /\ result[1] = Ok(HelloCard)

(* What each base text decodes to. *)
ExtraOutcome ==
    << Ok(DefaultCard),
       Ok(HelloCard),
       Ok(TextBlockOf("a")),
       Err("missing_field", "text"),
       Ok(Variant("Container",
             With(MinOf("Container"), "items", <<TextBlockOf("a")>>))),
       Ok(Variant("OpenUrl", With(MinOf("OpenUrlAction"), "url", "u"))),
       Ok(Variant("ShowCard", With(MinOf("ShowCardAction"), "card", DefaultCard))),
       Err("missing_field", "url") >>

(* C29: a key that is no field is ignored: a document, a node or an action
   text with one more member under such a key, whatever its value and its
   place, decodes to what the text without it decodes to, a value or an
   error, also when the node or the action is inside a document; and the
   encoding of the decoded value is the text without the key. *)
UnknownKeysIgnored ==
    /\ \A i \in 1..Len(ExtraBases) :
       \A f \in WithExtra(ExtraBases[i][2]) \cup {ExtraBases[i][2]} :
          (pc = "decoded" /\ typ = ExtraBases[i][1] /\ wire = Some(f)) =>
             /\ result[1] = ExtraOutcome[i]
             /\ result[1].ok =>
                   /\ to_string(typ, result[1].val) = ExtraBases[i][2]
                   /\ \A k \in ExtraKeys : ~HasKey(to_string(typ, result[1].val), k)
    /\ \A f \in WithExtra(ExtraBases[3][2]) :
          (pc = "decoded" /\ typ = "AdaptiveCard" /\ wire = Some(InBody(f))) =>
             /\ result[1] = Ok(With(DefaultCard, "body", <<TextBlockOf("a")>>))
             /\ to_string(typ, result[1].val) = InBody(ExtraBases[3][2])
    /\ \A f \in WithExtra(ExtraBases[6][2]) :
          (pc = "decoded" /\ typ = "AdaptiveCard" /\ wire = Some(InActions(f))) =>
             /\ result[1] = Ok(With(DefaultCard, "actions",
                                    Some(<<ExtraOutcome[6].val>>)))
             /\ to_string(typ, result[1].val) = InActions(ExtraBases[6][2])
UnknownKeyDecoded ==
    /\ pc = "decoded" /\ typ = "CardElement"
    /\ wire = Some(JObj(Append(ExtraBases[3][2].o, <<"extra", JStr("v")>>)))
    /\ result[1] = Ok(TextBlockOf("a"))

=============================================================================
